---- MODULE Spec2Model ----
(***************************************************************************)
(* A model of ocs_slot_autofill_app.py: the OCSAutomationSession lifecycle *)
(* (start / _login / _nav_to_add_flights / book_slot / close) driving a    *)
(* remote page whose every answer (a wait succeeding or timing out, a      *)
(* click or fill succeeding or raising) is chosen nondeterministically.    *)
(*                                                                         *)
(* trace is the list of interactions issued in the current phase of the    *)
(* running call; phases lists the login branches probed so far in it.      *)
(***************************************************************************)
EXTENDS Integers, Sequences, FiniteSets, TLC

VARIABLES
    pw, browser, context, page,   \* OCSAutomationSession handles, None when 0
    launches,                     \* number of browser launches so far
    bookings,                     \* book_slot calls accepted since the last launch
    pc,                           \* position of the single thread of control
    call,                         \* the session method running (or just ended)
    exc,                          \* exception the call ended with, "none" if it returned
    creds,                        \* creds argument of start()
    instruction,                  \* local of _login: the challenge text read, <<>> before
    slot,                         \* slot argument of book_slot(), mutated in place
    operation, parkloc,           \* locals of book_slot
    trace,                        \* interactions issued in the current phase
    phases,                       \* login branches probed in the current call
    px,                           \* inputs and outputs of a function run on its own
    autofill                      \* the run_ocs_autofill call in progress, if any

vars == <<pw, browser, context, page, launches, bookings, pc, call, exc, creds,
          instruction, slot, operation, parkloc, trace, phases, px, autofill>>

----------------------------------------------------------------------------
(* Bounds of the model *)

MaxLaunches == 2
MaxBookings == 2
MaxSecretLen == 10

None == 0

----------------------------------------------------------------------------
(* Values *)

\* A key that the dict does not hold.
Absent == "<absent>"

\* Python truthiness of the value dict.get(key) returns.
Truthy(v) == v # Absent /\ v # ""

Max(a, b) == IF a >= b THEN a ELSE b

\* str.lower() on the words the model uses.
Lower(w) ==
    CASE w = "Fourth" -> "fourth"
      [] w = "SEVENTH" -> "seventh"
      [] w = "Second" -> "second"
      [] w = "FIRST" -> "first"
      [] w = "The" -> "the"
      [] w = "AND" -> "and"
      [] w = "Character" -> "character"
      [] w = "Departure" -> "departure"
      [] w = "ARRIVAL" -> "arrival"
      [] OTHER -> w

\* One interaction: a call on the remote page, a dialog, a log line or a
\* teardown call, with the value written (if any) and whether it succeeded.
Ev(op, target, val, ok) == [op |-> op, target |-> target, val |-> val, ok |-> ok]

Op(op, target, val) == [op |-> op, target |-> target, val |-> val]

RECURSIVE RunOps(_, _)
\* The events of running the calls ops in order when the first k succeed and
\* call k+1 (if there is one) raises: nothing after the raising call is issued.
RunOps(ops, k) ==
    IF ops = <<>> THEN <<>>
    ELSE <<Ev(Head(ops).op, Head(ops).target, Head(ops).val, k >= 1)>>
         \o (IF k >= 1 THEN RunOps(Tail(ops), k - 1) ELSE <<>>)

\* The exceptions a call on the remote page raises: a wait, click or fill that
\* runs out of time, or any other failure.
Kinds == {"TimeoutError", "Error"}

----------------------------------------------------------------------------
(* The passphrase challenge: parsing and extraction (_login, step B) *)

ordinal_map ==
    [first |-> 1, second |-> 2, third |-> 3, fourth |-> 4, fifth |-> 5,
     sixth |-> 6, seventh |-> 7, eighth |-> 8, ninth |-> 9, tenth |-> 10]

\* word in ordinal_map
ordinal_keys == DOMAIN ordinal_map

\* Tokens of an instruction are its maximal runs of non-whitespace.
\* Tokens made of \w characters only:
WordTokens ==
    {"Please", "type", "the", "The", "and", "AND", "character", "characters",
     "Character", "in", "your", "pass", "phrase", "eleventh", "4th",
     "Fourth", "SEVENTH", "Second", "FIRST"} \cup ordinal_keys

\* Tokens that end with "the" (any case): where the pattern's literal the
\* can end right before whitespace.
EndsWithThe == {"the", "The"}

\* Tokens that start with "character" (any case).
StartsWithCharacter == {"character", "characters", "Character"}

\* re.search(r"the\s+(\w+)\s+and\s+(\w+)\s+character", text, re.IGNORECASE)
\* matches at token i when this holds.
MatchesAt(instr, i) ==
    /\ i + 4 <= Len(instr)
    /\ instr[i] \in EndsWithThe
    /\ instr[i + 1] \in WordTokens
    /\ Lower(instr[i + 2]) = "and"
    /\ instr[i + 3] \in WordTokens
    /\ instr[i + 4] \in StartsWithCharacter

\* The match object: <<>> for None, else match.groups() of the leftmost match.
ReSearch(instr) ==
    LET hits == {i \in 1..Len(instr) : MatchesAt(instr, i)}
    IN  IF hits = {} THEN <<>>
        ELSE LET i == CHOOSE j \in hits : \A h \in hits : j <= h
             IN  <<instr[i + 1], instr[i + 3]>>

\* seq[i] of Python: positions count from zero, negative ones from the end,
\* and a position outside the sequence raises IndexError.
PyIndex(seq, i) ==
    IF 0 <= i /\ i < Len(seq) THEN seq[i + 1]
    ELSE IF i < 0 /\ -i <= Len(seq) THEN seq[Len(seq) + i + 1]
    ELSE "IndexError"

CharAtOffByOne(phrase, idx) == PyIndex(phrase, idx)

\* phrase[idx - 1]
CharAt(phrase, idx) == PyIndex(phrase, idx - 1)

TooShortIgnoresSecond(phrase, idx1, idx2) == Len(phrase) < idx1

\* len(phrase) < max(idx1, idx2)
TooShort(phrase, idx1, idx2) == Len(phrase) < Max(idx1, idx2)

\* What the passphrase step decides from the instruction text and the stored
\* passphrase, before it touches the challenge inputs.
PassphraseStep(instr, phrase) ==
    LET m == ReSearch(instr)
    IN  IF m = <<>> THEN [kind |-> "CouldNotParse"]
        ELSE IF Lower(m[1]) \notin ordinal_keys \/ Lower(m[2]) \notin ordinal_keys
             THEN [kind |-> "UnknownOrdinals"]
        ELSE LET idx1 == ordinal_map[Lower(m[1])]
                 idx2 == ordinal_map[Lower(m[2])]
             IN  IF TooShort(phrase, idx1, idx2)
                 THEN [kind |-> "TooShort", idx1 |-> idx1, idx2 |-> idx2]
                 ELSE IF "IndexError" \in {CharAt(phrase, idx1), CharAt(phrase, idx2)}
                 THEN [kind |-> "IndexError"]
                 ELSE [kind |-> "Fill", idx1 |-> idx1, idx2 |-> idx2,
                       char1 |-> CharAt(phrase, idx1),
                       char2 |-> CharAt(phrase, idx2)]

----------------------------------------------------------------------------
(* Inputs *)

Alphabet == <<"a", "b", "c", "d", "e", "f", "g", "h", "i", "j", "k", "l">>

\* The first n characters of the alphabet as a passphrase.
Phrase(n) == SubSeq(Alphabet, 1, n)

\* creds arguments of start(): a passphrase of eight and one of five characters.
Creds ==
    {[username |-> "user", password |-> "pw", passphrase |-> p] :
        p \in {Phrase(8), Phrase(5)}}

\* Texts the page can show in the element matching "text=Please type the".
Instructions ==
    { <<"Please", "type", "the", "fourth", "and", "seventh", "character",
        "in", "your", "pass", "phrase">>,
      <<"Please", "type", "The", "Second", "AND", "FIRST", "characters">>,
      <<"Please", "type", "the", "tenth", "and", "third", "character">>,
      <<"Please", "type", "the", "eleventh", "and", "second", "character">>,
      <<"Please", "type", "the", "characters", "fourth", "and", "seventh">> }

NoCreds == [username |-> "", password |-> "", passphrase |-> <<>>]

NoSlot ==
    [operation |-> Absent, airport |-> Absent, acreg |-> Absent, date |-> Absent,
     seats |-> Absent, ac_type |-> Absent, time |-> Absent,
     other_airport |-> Absent, parkloc |-> Absent]

PxIdle == [instr |-> <<>>, phrase |-> <<>>, out |-> [kind |-> "none"]]

----------------------------------------------------------------------------
(* OCSAutomationSession *)

\* is_active
IsActive == page # None

\* No run_ocs_autofill call in progress.
NoRun == [stage |-> "none", owns |-> FALSE, creds |-> NoCreds, exc |-> "none"]

\* What the fields of the window can hold when the button is pressed: the
\* credentials of Creds, or ones with the username or the password missing.
UiCreds ==
    Creds \cup {[username |-> "", password |-> "pw", passphrase |-> Phrase(8)],
                [username |-> "user", password |-> "", passphrase |-> Phrase(8)]}

\* launch_autofill's test of the credentials.
MissingCredentials(c) == c.username = "" \/ c.password = ""

\* A save_creds that lets a failed write out.
SaveCredsPropagates(written) == IF written THEN "none" ELSE "OSError"

\* save_creds: the exception it ends with when the write succeeded or failed;
\* the handler covers the open and the dump.
SaveCreds(written) == "none"

CredFileWrite(ok) == Ev("write", "ocs_creds.json", "", ok)

EnterCredentialsDialog == Ev("showerror", "Enter OCS credentials.", "", TRUE)

ErrorBookingDialog == Ev("showerror", "Error booking slot", "", TRUE)

\* owns_session of run_ocs_autofill, for the session argument given.
OwnsSession(session) == session = None

\* A finally block that closes whatever session it ran on.
ClosesInFinallyAlways(owns) == TRUE

\* The finally block of run_ocs_autofill closes the session it created.
ClosesInFinally(owns) == owns

\* The creds argument start() is called with: the caller's own, or the one
\* run_ocs_autofill was given.
StartCreds == IF autofill.stage = "start" THEN {autofill.creds} ELSE Creds

\* run_ocs_autofill after a session call ended with e: book_slot follows a
\* start that returned, the finally block follows everything else, and an
\* exception of close() replaces the one in flight.
AfterCall(r, e) ==
    CASE r.stage = "start" /\ e = "none" ->
             [r EXCEPT !.stage = "book", !.creds = NoCreds]
      [] r.stage = "start" /\ e # "none" ->
             [r EXCEPT !.stage = "finally", !.creds = NoCreds, !.exc = e]
      [] r.stage = "book" -> [r EXCEPT !.stage = "finally", !.exc = e]
      [] r.stage = "closed" /\ e # "none" -> [r EXCEPT !.exc = e]
      [] OTHER -> r

Init ==
    /\ pw = None /\ browser = None /\ context = None /\ page = None
    /\ launches = 0 /\ bookings = 0 /\ autofill = NoRun
    /\ pc = "idle" /\ call = "none" /\ exc = "none"
    /\ creds = NoCreds /\ instruction = <<>> /\ slot = NoSlot
    /\ operation = "" /\ parkloc = ""
    /\ trace = <<>> /\ phases = <<>>
    /\ px = PxIdle

\* The running call ends by raising e ("none": it returns).
Finish(e) == pc' = "done" /\ exc' = e

Probed(name) == Append(phases, name)

\* The teardown calls close() makes for the handles that are set, when call
\* number failAt of them raises (0: none does); close() stops at a raising call.
TeardownOps(ctx, br, p) ==
    (IF ctx # None THEN <<Op("close", "context", "")>> ELSE <<>>)
    \o (IF br # None THEN <<Op("close", "browser", "")>> ELSE <<>>)
    \o (IF p # None THEN <<Op("stop", "playwright", "")>> ELSE <<>>)

\* The outcomes close() can have: the calls made and the exception raised.
CloseOutcomes(ctx, br, p) ==
    LET ops == TeardownOps(ctx, br, p)
    IN  {[events |-> RunOps(ops, k),
          raised |-> IF k < Len(ops) THEN "Error" ELSE "none"] : k \in 0..Len(ops)}

\* A finally block that forgets the page.
ResetHandlesKeepsPage == pw' = None /\ browser' = None /\ context' = None /\ page' = page

\* The finally block of close(): every handle is reset.
ResetHandles == pw' = None /\ browser' = None /\ context' = None /\ page' = None

\* A start() that never takes the early return.
AlreadyStartedNever == FALSE

\* The early return of start(): a page is held.
AlreadyStarted == page # None

\* start(): nothing when a page is held; else launch, then _login and
\* _nav_to_add_flights in the steps below.  A launch call may raise, and the
\* handles assigned before it stay set.
Start ==
    /\ pc = "idle"
    /\ autofill.stage \in {"none", "start"}
    /\ call' = "start"
    /\ trace' = <<>> /\ phases' = <<>>
    /\ UNCHANGED <<instruction, slot, operation, parkloc, px, autofill>>
    /\ \/ /\ AlreadyStarted
          /\ Finish("none")
          /\ UNCHANGED <<pw, browser, context, page, launches, bookings, creds>>
       \/ /\ ~AlreadyStarted
          /\ launches < MaxLaunches
          /\ launches' = launches + 1
          /\ bookings' = 0
          /\ \E c \in StartCreds, k \in 0..4 :
                /\ creds' = c
                /\ pw' = IF k >= 1 THEN launches + 1 ELSE pw
                /\ browser' = IF k >= 2 THEN launches + 1 ELSE browser
                /\ context' = IF k >= 3 THEN launches + 1 ELSE context
                /\ page' = IF k >= 4 THEN launches + 1 ELSE page
                /\ IF k = 4 THEN pc' = "login_entry" /\ exc' = "none"
                   ELSE Finish("Error")

EntryOps == <<Op("wait", "text=Login", ""), Op("click", "text=Login", "")>>

\* _login, step A: load the root page, then the optional Login affordance.
LoginEntry ==
    /\ pc = "login_entry"
    /\ UNCHANGED <<pw, browser, context, page, launches, bookings, autofill, call, creds,
                   instruction, slot, operation, parkloc, px>>
    /\ \/ \E kind \in Kinds :
            /\ trace' = <<Ev("goto", "root", "", FALSE)>>
            /\ phases' = phases
            /\ Finish(kind)
       \/ \E k \in 0..Len(EntryOps) :
            /\ trace' = <<Ev("goto", "root", "", TRUE)>> \o RunOps(EntryOps, k)
            /\ phases' = Probed("EntryLogin")
            /\ pc' = "login_native" /\ exc' = exc

NativeOps(c) ==
    <<Op("wait", "input[name='username']", ""),
      Op("fill", "input[name='username']", c.username),
      Op("fill", "input[name='password']", c.password),
      Op("click", "Next", "")>>

\* _login, branch A: the native login form; any exception is swallowed.
LoginNative ==
    /\ pc = "login_native"
    /\ UNCHANGED <<pw, browser, context, page, launches, bookings, autofill, call, creds,
                   instruction, slot, operation, parkloc, px>>
    /\ \E k \in 0..Len(NativeOps(creds)) :
          /\ trace' = RunOps(NativeOps(creds), k)
          /\ phases' = Probed("NativeLogin")
          /\ pc' = "login_federated" /\ exc' = exc

FederatedOps(c) ==
    <<Op("wait", "input[type='email']", ""),
      Op("fill", "input[type='email']", c.username),
      Op("click", "Next", ""),
      Op("wait", "input[type='password']", ""),
      Op("fill", "input[type='password']", c.password),
      Op("click", "Sign in", ""),
      Op("wait", "#idSIButton9", ""),
      Op("click", "#idSIButton9", "")>>

\* _login, branch B: the federated (Azure) login; any exception is swallowed.
LoginFederated ==
    /\ pc = "login_federated"
    /\ UNCHANGED <<pw, browser, context, page, launches, bookings, autofill, call, creds,
                   instruction, slot, operation, parkloc, px>>
    /\ \E k \in 0..Len(FederatedOps(creds)) :
          /\ trace' = RunOps(FederatedOps(creds), k)
          /\ phases' = Probed("FederatedLogin")
          /\ pc' = "login_conflict" /\ exc' = exc

\* The calls of the conflict branch: with no log-out button only the count.
ConflictOps(c, hasButton) ==
    <<Op("wait", "text=already logged in", "")>>
    \o (IF hasButton
        THEN <<Op("count>0", "Log out other user", ""),
               Op("click", "Log out other user", ""),
               Op("wait", "input[name='username']", ""),
               Op("fill", "input[name='username']", c.username),
               Op("fill", "input[name='password']", c.password),
               Op("click", "Next", "")>>
        ELSE <<Op("count=0", "Log out other user", "")>>)

CatchesNothing(e) == FALSE

CatchesAnything(e) == TRUE

\* except PWTimeoutError: the handler of the conflict and passphrase branches.
CatchesTimeoutOnly(e) == e = "TimeoutError"

\* _login, "user already logged in": a timeout anywhere in the branch is
\* swallowed, any other exception leaves _login.
LoginConflict ==
    /\ pc = "login_conflict"
    /\ UNCHANGED <<pw, browser, context, page, launches, bookings, autofill, call, creds,
                   instruction, slot, operation, parkloc, px>>
    /\ \E hasButton \in BOOLEAN, kind \in Kinds :
       \E k \in 0..Len(ConflictOps(creds, hasButton)) :
          /\ k # 1    \* count() does not raise
          /\ trace' = RunOps(ConflictOps(creds, hasButton), k)
          /\ phases' = Probed("ConflictRecovery")
          /\ IF k < Len(ConflictOps(creds, hasButton)) /\ ~CatchesTimeoutOnly(kind)
             THEN Finish(kind)
             ELSE pc' = "login_settle" /\ exc' = exc

\* A wait that, timed out, sends _login back to the conflict branch to be
\* waited for again.
LoginSettleRepeating ==
    /\ pc = "login_settle"
    /\ UNCHANGED <<pw, browser, context, page, launches, bookings, autofill, call, creds,
                   instruction, slot, operation, parkloc, px>>
    /\ \E ok \in BOOLEAN :
          /\ trace' = <<Ev("wait", "networkidle", "", ok)>>
          /\ exc' = exc
          /\ IF ok THEN pc' = "login_passphrase" /\ phases' = phases
             ELSE pc' = "login_conflict" /\ phases' = SubSeq(phases, 1, Len(phases) - 1)

\* _login: page.wait_for_load_state("networkidle") before the passphrase step.
LoginSettle ==
    /\ pc = "login_settle"
    /\ UNCHANGED <<pw, browser, context, page, launches, bookings, autofill, call, creds,
                   instruction, slot, operation, parkloc, phases, px>>
    /\ \E ok \in BOOLEAN :
          /\ trace' = <<Ev("wait", "networkidle", "", ok)>>
          /\ IF ok THEN pc' = "login_passphrase" /\ exc' = exc
             ELSE Finish("TimeoutError")

ChallengeOpsSwapped(char1, char2) ==
    <<Op("fill", "inputs.nth(0)", char2),
      Op("fill", "inputs.nth(1)", char1),
      Op("click", "form button Login", "")>>

\* The calls that answer the challenge: the two fills, then the Login click.
ChallengeOps(char1, char2) ==
    <<Op("fill", "inputs.nth(0)", char1),
      Op("fill", "inputs.nth(1)", char2),
      Op("click", "form button Login", "")>>

TooShortDialog == Ev("showerror", "passphrase too short", "", TRUE)

\* The ways the body of the passphrase try block can run for the stored
\* passphrase: the interactions issued, the exception raised in it (if any),
\* and whether it closed the session and returned from _login.
ChallengeRuns(phrase, ctx, br, p) ==
    LET probe(ok) == Ev("wait", "text=Please type the", "", ok)
        text(ok) == Ev("inner_text", "text=Please type the", "", ok)
        run(ev, e, instr, ret) ==
            [events |-> ev, raised |-> e, instruction |-> instr, returned |-> ret]
        decided(instr) ==
            LET d == PassphraseStep(instr, phrase)
                pre == <<probe(TRUE), text(TRUE)>>
            IN  CASE d.kind \in {"CouldNotParse", "UnknownOrdinals"} ->
                       {run(pre, d.kind, instr, FALSE)}
                  [] d.kind = "IndexError" -> {run(pre, d.kind, instr, FALSE)}
                  [] d.kind = "TooShort" ->
                       {run(pre \o <<TooShortDialog>> \o c.events, c.raised,
                            instr, c.raised = "none") :
                           c \in CloseOutcomes(ctx, br, p)}
                  [] OTHER ->
                       {run(pre \o RunOps(ChallengeOps(d.char1, d.char2), k),
                            IF k < 3 THEN kind ELSE "none", instr, FALSE) :
                           k \in 0..3, kind \in Kinds}
    IN  {run(<<probe(FALSE)>>, kind, <<>>, FALSE) : kind \in Kinds}
        \cup {run(<<probe(TRUE), text(FALSE)>>, kind, <<>>, FALSE) : kind \in Kinds}
        \cup UNION {decided(instr) : instr \in Instructions}

\* _login, step B: the passphrase challenge.  A timeout raised in the try
\* block is swallowed ("No passphrase challenge detected."); any other
\* exception leaves _login; the too-short branch closes the session and returns.
LoginPassphrase ==
    /\ pc = "login_passphrase"
    /\ UNCHANGED <<launches, bookings, autofill, call, creds, slot, operation, parkloc, px>>
    /\ \E r \in ChallengeRuns(creds.passphrase, context, browser, pw) :
          /\ trace' = r.events
          /\ instruction' = r.instruction
          /\ phases' = Probed("PassphraseChallenge")
          /\ IF TooShortDialog \in {r.events[i] : i \in 1..Len(r.events)}
             THEN ResetHandles
             ELSE UNCHANGED <<pw, browser, context, page>>
          /\ CASE r.returned -> pc' = "start_nav" /\ exc' = exc
               [] ~r.returned /\ r.raised # "none" /\ ~CatchesTimeoutOnly(r.raised) ->
                     Finish(r.raised)
               [] OTHER -> pc' = "login_final_wait" /\ exc' = exc

\* _login: the last page.wait_for_load_state("networkidle").
LoginFinalWait ==
    /\ pc = "login_final_wait"
    /\ UNCHANGED <<pw, browser, context, page, launches, bookings, autofill, call, creds,
                   instruction, slot, operation, parkloc, phases, px>>
    /\ \E ok \in BOOLEAN :
          /\ trace' = Append(trace, Ev("wait", "networkidle", "", ok))
          /\ IF ok THEN pc' = "start_nav" /\ exc' = exc
             ELSE Finish("TimeoutError")

\* The three locators _nav_to_add_flights tries for the GA/BA Flights control.
NavLocators ==
    <<"GA/BA Flights (button/a span)", "GA/BA Flights (link role)",
      "GA/BA Flights (text)">>

\* The clicks on the first n locators, all raising.
FailedClicks(n) == [i \in 1..n |-> Ev("click", NavLocators[i], "", FALSE)]

\* The calls of _nav_to_add_flights from the locator that took the click on.
NavOps(alt) ==
    <<Op("click", NavLocators[alt], ""),
      Op("click", "Add Flights", ""),
      Op("wait", "networkidle", ""),
      Op("wait", "p=Departure", ""),
      Op("wait", "p=Arrival", "")>>

\* The runs of _nav_to_add_flights: the interactions and the exception raised.
\* Only the first two locator failures are caught; every other one leaves it.
NavRuns ==
    LET idle(ok) == Ev("wait", "networkidle", "", ok)
        run(ev, e) == [events |-> ev, raised |-> e]
    IN  {run(<<idle(FALSE)>>, "TimeoutError"),
         run(<<idle(TRUE)>> \o FailedClicks(3), "TimeoutError")}
        \cup UNION {{run(<<idle(TRUE)>> \o FailedClicks(alt - 1) \o RunOps(NavOps(alt), k),
                         IF k < Len(NavOps(alt)) THEN "TimeoutError" ELSE "none") :
                        k \in 1..Len(NavOps(alt))} : alt \in 1..3}

\* start(): self._nav_to_add_flights() after _login returned.  With the page
\* handle reset by _login, page.wait_for_load_state is an attribute of None.
StartNav ==
    /\ pc = "start_nav"
    /\ UNCHANGED <<pw, browser, context, page, launches, bookings, autofill, call, creds,
                   instruction, slot, operation, parkloc, phases, px>>
    /\ IF page = None
       THEN trace' = trace /\ Finish("AttributeError")
       ELSE \E r \in NavRuns :
               /\ trace' = r.events
               /\ Finish(r.raised)

\* close(): tear down what is held; the finally block resets every handle.
\* Within run_ocs_autofill it is called from the finally block alone.
Close ==
    /\ pc = "idle"
    /\ \/ autofill.stage = "none"
       \/ autofill.stage = "finally" /\ ClosesInFinally(autofill.owns)
    /\ autofill' = IF autofill.stage = "finally" THEN [autofill EXCEPT !.stage = "closed"] ELSE autofill
    /\ call' = "close"
    /\ phases' = <<>>
    /\ UNCHANGED <<launches, bookings, creds, instruction, slot, operation, parkloc, px>>
    /\ \E c \in CloseOutcomes(context, browser, pw) :
          /\ trace' = c.events
          /\ Finish(c.raised)
    /\ ResetHandles

\* The caller takes control back after a call returned or raised; within
\* run_ocs_autofill the try block moves on, or is left for the finally block.
Return ==
    /\ pc = "done"
    /\ pc' = "idle"
    /\ call' = "none" /\ exc' = "none"
    /\ creds' = NoCreds /\ instruction' = <<>>
    /\ slot' = NoSlot /\ operation' = "" /\ parkloc' = ""
    /\ trace' = <<>> /\ phases' = <<>>
    /\ autofill' = AfterCall(autofill, exc)
    /\ UNCHANGED <<pw, browser, context, page, launches, bookings, px>>

----------------------------------------------------------------------------
(* book_slot *)

\* slot arguments of book_slot(): every airport case, every operation case,
\* with the optional fields given and the default aircraft type, or with
\* them left empty and a type that has no default seats or registration.
Slots ==
    {[operation |-> o, airport |-> a,
      acreg |-> IF f THEN "CGXYZ" ELSE "",
      date |-> IF f THEN "27NOV" ELSE "",
      seats |-> Absent,
      ac_type |-> IF f THEN "" ELSE "PC12",
      time |-> IF f THEN "0800" ELSE "",
      other_airport |-> IF f THEN "KTEB" ELSE "",
      parkloc |-> Absent] :
        o \in {"departure", "ARRIVAL", "turnaround"},
        a \in {"", "CYYZ", "CYUL"},
        f \in BOOLEAN}

default_regs_swapped == [E545 |-> "CGASL", C25A |-> "CFASY", C25B |-> "CFASP"]

default_regs == [E545 |-> "CGASL", C25A |-> "CFASP", C25B |-> "CFASY"]

ApplySlotDefaultsDeferred(s) ==
    [slot |-> s,
     operation |-> Lower(IF s.operation = Absent THEN "departure" ELSE s.operation),
     parkloc |-> IF Truthy(s.parkloc) THEN s.parkloc ELSE "SKYCHARTER"]

ApplySlotDefaultsOverwritingSeats(s) ==
    LET ac_type == IF Truthy(s.ac_type) THEN s.ac_type ELSE "E545"
    IN  [slot |-> [s EXCEPT !.ac_type = ac_type,
                            !.seats = IF ac_type = "E545" THEN "9" ELSE "7"],
         operation |-> Lower(IF s.operation = Absent THEN "departure" ELSE s.operation),
         parkloc |-> IF Truthy(s.parkloc) THEN s.parkloc ELSE "SKYCHARTER"]

\* _apply_slot_defaults: the slot after it, and the pair it returns.
ApplySlotDefaults(s) ==
    LET op == Lower(IF s.operation = Absent THEN "departure" ELSE s.operation)
        pl == IF Truthy(s.parkloc) THEN s.parkloc ELSE "SKYCHARTER"
        ac_type == IF Truthy(s.ac_type) THEN s.ac_type ELSE "E545"
        acreg == IF ~Truthy(s.acreg) /\ ac_type \in DOMAIN default_regs
                 THEN default_regs[ac_type] ELSE s.acreg
        seats == IF Truthy(s.seats) THEN s.seats
                 ELSE IF ac_type = "E545" THEN "9"
                 ELSE IF ac_type \in {"C25A", "C25B"} THEN "7"
                 ELSE s.seats
    IN  [slot |-> [s EXCEPT !.ac_type = ac_type, !.acreg = acreg, !.seats = seats],
         operation |-> op, parkloc |-> pl]

Raise(ev, e) == trace' = trace \o ev /\ Finish(e)

Goto(ev, next) == trace' = trace \o ev /\ pc' = next /\ exc' = exc

NotStartedIgnored == FALSE

\* "if not self.page" of book_slot and of ensure_add_flights_page.
NotStarted == page = None

\* The calls book_slot makes on itself before the navigation guard.
BookEntry == <<"_reset_debug_log", "_apply_slot_defaults">>

\* book_slot up to the navigation guard: rejected without a page; else the
\* debug log is reset and the defaults are applied to the caller's dict.
BookSlot ==
    /\ pc = "idle"
    /\ autofill.stage \in {"none", "book"}
    /\ call' = "book_slot"
    /\ UNCHANGED <<pw, browser, context, page, launches, creds, instruction, px, autofill>>
    /\ \E s \in Slots :
          IF NotStarted
          THEN /\ slot' = s /\ trace' = <<>> /\ phases' = <<>>
               /\ Finish("RuntimeError")
               /\ UNCHANGED <<operation, parkloc, bookings>>
          ELSE /\ bookings < MaxBookings
               /\ bookings' = bookings + 1
               /\ slot' = ApplySlotDefaults(s).slot
               /\ operation' = ApplySlotDefaults(s).operation
               /\ parkloc' = ApplySlotDefaults(s).parkloc
               /\ trace' = <<Ev("reset_log", "ocs_autofill_debug.log", "", TRUE)>>
               /\ phases' = BookEntry
               /\ pc' = "book_guard" /\ exc' = exc

BookFrame == UNCHANGED <<pw, browser, context, page, launches, bookings, autofill, call, creds,
                         instruction, slot, operation, parkloc, phases, px>>

MarkerOpsDepartureOnly == <<Op("wait", "p=Departure", "")>>

\* The two waits that close ensure_add_flights_page.
MarkerOps == <<Op("wait", "p=Departure", ""), Op("wait", "p=Arrival", "")>>

\* The runs of ensure_add_flights_page on a held page.  The Departure header
\* is seen: no walk.  It is not seen: the menu is walked, and walked once more
\* by the except clause when that walk raises.  The visibility test itself raises: the
\* except clause walks the menu.  An exception of the last walk, or of the two
\* closing waits, leaves the guard.
EnsureRuns ==
    LET seen(v) == Ev("is_visible", "p=Departure", "", v)
        checkRaised == Ev("is_visible", "p=Departure", "raised", FALSE)
        run(ev, e) == [events |-> ev, raised |-> e]
        tail(ev) == {run(ev \o RunOps(MarkerOps, k),
                         IF k < 2 THEN "TimeoutError" ELSE "none") : k \in 0..2}
        lastWalk(ev) == UNION {IF n.raised = "none" THEN tail(ev \o n.events)
                               ELSE {run(ev \o n.events, n.raised)} : n \in NavRuns}
        firstWalk(ev) == UNION {IF n.raised = "none" THEN tail(ev \o n.events)
                                ELSE lastWalk(ev \o n.events) : n \in NavRuns}
    IN  tail(<<seen(TRUE)>>) \cup firstWalk(<<seen(FALSE)>>) \cup lastWalk(<<checkRaised>>)

\* book_slot: self.ensure_add_flights_page().  Past the guard, trace keeps
\* its two closing waits and goes on with the interactions on the new row.
BookGuard ==
    /\ pc = "book_guard"
    /\ UNCHANGED <<pw, browser, context, page, launches, bookings, autofill, call, creds,
                   instruction, slot, operation, parkloc, px>>
    /\ \E r \in EnsureRuns :
          IF r.raised = "none"
          THEN /\ trace' = SubSeq(r.events, Len(r.events) - 1, Len(r.events))
               /\ phases' = Append(phases, "ensure_add_flights_page")
               /\ pc' = "book_add_row" /\ exc' = exc
          ELSE /\ trace' = r.events
               /\ phases' = phases
               /\ Finish(r.raised)

\* click_add_slot_button: header, container and button become visible, click.
AddSlotOps(block) ==
    <<Op("wait_visible", block, ""),
      Op("wait_visible", "ocs-double-btn", ""),
      Op("wait_visible", "Add A/C Reg", ""),
      Op("click", "Add A/C Reg", "")>>

AddRowFailureSwallowed(ev) == Goto(ev, "book_airport")

\* An exception of click_add_slot_button is caught nowhere in book_slot.
AddRowFailed(ev) == Raise(ev, "TimeoutError")

\* book_slot: the operation key, then click_add_slot_button.
BookAddRow ==
    /\ pc = "book_add_row"
    /\ BookFrame
    /\ IF operation \notin {"departure", "arrival"}
       THEN Raise(<<>>, "UnknownOperation")
       ELSE \E k \in 0..4 :
               LET ev == RunOps(AddSlotOps(IF operation = "departure"
                                           THEN "p=Departure" ELSE "p=Arrival"), k)
               IN  IF k = 4 THEN Goto(ev, "book_airport")
                   ELSE AddRowFailed(ev)

\* The runs of select_row_react_select: the structural strategy selects the
\* option; or it fails, which is logged, and the proximity strategy selects
\* it; or that fails too, which is logged, and False is returned.
SelectRowRuns(label, value) ==
    LET run(ev, ok) == [events |-> ev, ok |-> ok]
    IN  {run(<<Ev("select:structural", label, value, TRUE)>>, TRUE),
         run(<<Ev("select:structural", label, value, FALSE),
               Ev("log", "ERROR selecting", label, TRUE),
               Ev("select:proximity", label, value, TRUE)>>, TRUE),
         run(<<Ev("select:structural", label, value, FALSE),
               Ev("log", "ERROR selecting", label, TRUE),
               Ev("select:proximity", label, value, FALSE),
               Ev("log", "FALLBACK ERROR selecting", label, TRUE)>>, FALSE)}

AirportDialog == Ev("showerror", "Couldn't select A/P dropdown", "", TRUE)

AfterAirportSkipsRegistration(ok) == "book_date"

\* Where book_slot goes on after the A/P selection returned ok.
AfterAirport(ok) == "book_acreg"

\* book_slot: the A/P selection; a failure is shown in a dialog.
BookAirport ==
    /\ pc = "book_airport"
    /\ BookFrame
    /\ IF Truthy(slot.airport)
       THEN \E r \in SelectRowRuns("A/P", slot.airport) :
               Goto(r.events \o (IF r.ok THEN <<>> ELSE <<AirportDialog>>),
                    AfterAirport(r.ok))
       ELSE Goto(<<>>, "book_acreg")

\* fill_text_cell(page, label, value) either writes the value or raises.
FillTextCell(label, value, ok) == <<Ev("fill", label, value, ok)>>

\* One "if slot.get(key): fill_text_cell(...)" of book_slot, with what
\* follows the fill; an exception of the fill leaves book_slot.
FillStep(here, next, label, value, after) ==
    /\ pc = here
    /\ BookFrame
    /\ IF Truthy(value)
       THEN \E ok \in BOOLEAN :
               IF ok THEN Goto(FillTextCell(label, value, TRUE) \o after, next)
               ELSE Raise(FillTextCell(label, value, FALSE), "TimeoutError")
       ELSE Goto(<<>>, next)

BookAcReg == FillStep("book_acreg", "book_date", "A/C Reg", slot.acreg, <<>>)

BookDate ==
    FillStep("book_date", "book_seats", "Date", slot.date,
             <<Ev("press", "Escape", "", TRUE)>>)

BookSeats == FillStep("book_seats", "book_ac_type", "Seats", slot.seats, <<>>)

BookAcType == FillStep("book_ac_type", "book_time", "A/C Type", slot.ac_type, <<>>)

BookTime == FillStep("book_time", "book_other", "Time", slot.time, <<>>)

BookOtherAirport ==
    FillStep("book_other", "book_stc",
             IF operation = "departure" THEN "Dest" ELSE "Orig",
             slot.other_airport, <<>>)

\* The runs of select_stc: the inline STC control, or the combined
\* service-type control when the inline one is not visible; any failure raises.
SelectStcRuns(value) ==
    {[events |-> <<Ev("select", "STC", value, TRUE)>>, raised |-> "none"],
     [events |-> <<Ev("select", "service-type", value, TRUE)>>, raised |-> "none"],
     [events |-> <<Ev("select", "STC", value, FALSE)>>, raised |-> "Error"]}

\* book_slot: select_stc(page, "D")
BookStc ==
    /\ pc = "book_stc"
    /\ BookFrame
    /\ \E r \in SelectStcRuns("D") :
          IF r.raised = "none" THEN Goto(r.events, "book_parkloc")
          ELSE Raise(r.events, r.raised)

\* if slot.get("airport") == "CYYZ"
WantsParkLoc(s) == s.airport = "CYYZ"

\* book_slot: select_parkloc on the last react-select control of the row.
BookParkLoc ==
    /\ pc = "book_parkloc"
    /\ BookFrame
    /\ IF WantsParkLoc(slot)
       THEN \E ok \in BOOLEAN :
               IF ok THEN Goto(<<Ev("select", "ParkLoc", parkloc, TRUE)>>, "book_send")
               ELSE Raise(<<Ev("select", "ParkLoc", parkloc, FALSE)>>, "Error")
       ELSE Goto(<<>>, "book_send")

\* click_send_all: the button becomes visible, is scrolled to and clicked,
\* and the page settles.
SendAllOps ==
    <<Op("wait_visible", "#sendAllBtn", ""),
      Op("scroll", "#sendAllBtn", ""),
      Op("click", "#sendAllBtn", ""),
      Op("wait", "networkidle", "")>>

\* book_slot: click_send_all, which catches its exceptions, then the dialog.
BookSendAll ==
    /\ pc = "book_send"
    /\ BookFrame
    /\ \E k \in 0..Len(SendAllOps) :
          LET ok == k = Len(SendAllOps)
          IN  Raise(RunOps(SendAllOps, k)
                    \o <<Ev("log", IF ok THEN "Clicked Send All button"
                                    ELSE "ERROR clicking Send All", "", TRUE),
                          Ev(IF ok THEN "showinfo" ELSE "showerror", "Send All", "", TRUE)>>,
                    "none")

\* ensure_add_flights_page called on its own.
EnsurePage ==
    /\ pc = "idle"
    /\ autofill.stage = "none"
    /\ call' = "ensure_add_flights_page"
    /\ phases' = <<>>
    /\ UNCHANGED <<pw, browser, context, page, launches, bookings, autofill, creds,
                   instruction, slot, operation, parkloc, px>>
    /\ IF NotStarted
       THEN trace' = <<>> /\ Finish("RuntimeError")
       ELSE \E r \in EnsureRuns : trace' = r.events /\ Finish(r.raised)

\* run_ocs_autofill(slot, creds, session) up to its try block.
RunOcsAutofill(session, c) ==
    /\ OwnsSession(session) => pw = None /\ browser = None /\ context = None /\ page = None
    /\ autofill' = [stage |-> "start", owns |-> OwnsSession(session), creds |-> c,
               exc |-> "none"]
    /\ pc' = "idle" /\ exc' = "none"

\* launch_autofill: the credentials are required, saved, and the booking is
\* run on the session of the application.
LaunchAutofill ==
    /\ pc = "idle" /\ autofill.stage = "none"
    /\ call' = "launch_autofill"
    /\ phases' = <<>>
    /\ UNCHANGED <<pw, browser, context, page, launches, bookings, creds,
                   instruction, slot, operation, parkloc, px>>
    /\ \E c \in UiCreds, written \in BOOLEAN :
          IF MissingCredentials(c)
          THEN trace' = <<EnterCredentialsDialog>> /\ Finish("none") /\ autofill' = autofill
          ELSE /\ trace' = <<CredFileWrite(written)>>
               /\ IF SaveCreds(written) # "none"
                  THEN Finish(SaveCreds(written)) /\ autofill' = autofill
                  ELSE RunOcsAutofill(1, c)

\* run_ocs_autofill called without a session: it constructs its own.
RunOwned ==
    /\ pc = "idle" /\ autofill.stage = "none"
    /\ call' = "run_ocs_autofill"
    /\ trace' = <<>> /\ phases' = <<>>
    /\ UNCHANGED <<pw, browser, context, page, launches, bookings, creds,
                   instruction, slot, operation, parkloc, px>>
    /\ \E c \in Creds : RunOcsAutofill(None, c)

\* run_ocs_autofill leaves its finally block; launch_autofill reports an
\* exception in a dialog, a direct caller receives it.
RunEnd ==
    /\ pc = "idle"
    /\ \/ autofill.stage = "closed"
       \/ autofill.stage = "finally" /\ ~ClosesInFinally(autofill.owns)
    /\ autofill' = NoRun
    /\ phases' = <<>>
    /\ UNCHANGED <<pw, browser, context, page, launches, bookings, creds,
                   instruction, slot, operation, parkloc, px>>
    /\ IF autofill.owns
       THEN /\ call' = "run_ocs_autofill"
            /\ trace' = <<>>
            /\ Finish(autofill.exc)
       ELSE /\ call' = "launch_autofill"
            /\ trace' = IF autofill.exc # "none" THEN <<ErrorBookingDialog>> ELSE <<>>
            /\ Finish("none")

----------------------------------------------------------------------------

Next ==
    \/ Start \/ LoginEntry \/ LoginNative \/ LoginFederated \/ LoginConflict
    \/ LoginSettle \/ LoginPassphrase \/ LoginFinalWait \/ StartNav
    \/ BookSlot \/ BookGuard \/ BookAddRow \/ BookAirport \/ BookAcReg
    \/ BookDate \/ BookSeats \/ BookAcType \/ BookTime \/ BookOtherAirport
    \/ BookStc \/ BookParkLoc \/ BookSendAll \/ EnsurePage
    \/ Close \/ Return
    \/ LaunchAutofill \/ RunOwned \/ RunEnd

Spec == Init /\ [][Next]_vars

\* A call that has begun moves on: the single thread of control runs the
\* next statement of start() or book_slot() as soon as the one before it
\* has ended, succeeded or timed out.
InCall == pc \notin {"idle", "done"} /\ (pc' = "done" \/ pc' # pc)

\* The session under a thread that goes on running a call it has begun; a
\* caller need not call again.
LiveSpec == Spec /\ WF_pc(InCall)

----------------------------------------------------------------------------
(* The passphrase step alone, over every pair of words and every length *)

\* Words an instruction can name: the ten ordinals, some in other case, and
\* words that are no ordinal.
PxWords == ordinal_keys \cup {"Fourth", "SEVENTH", "Second", "FIRST", "eleventh", "4th"}

PxInstruction(w1, w2) == <<"Please", "type", "the", w1, "and", w2, "character">>

PxInit ==
    /\ pw = None /\ browser = None /\ context = None /\ page = None
    /\ launches = 0 /\ bookings = 0 /\ autofill = NoRun
    /\ pc = "idle" /\ call = "none" /\ exc = "none"
    /\ creds = NoCreds /\ instruction = <<>> /\ slot = NoSlot
    /\ operation = "" /\ parkloc = ""
    /\ trace = <<>> /\ phases = <<>>
    /\ \E w1 \in PxWords, w2 \in PxWords, n \in 0..MaxSecretLen :
          px = [instr |-> PxInstruction(w1, w2), phrase |-> Phrase(n),
                out |-> [kind |-> "none"]]

\* Run the step on the drawn instruction and passphrase.
PxApply ==
    /\ px.out.kind = "none"
    /\ px' = [px EXCEPT !.out = PassphraseStep(px.instr, px.phrase)]
    /\ UNCHANGED <<pw, browser, context, page, launches, bookings, autofill, pc, call, exc, creds,
                   instruction, slot, operation, parkloc, trace, phases>>

PxNext == PxApply

PxSpec == PxInit /\ [][PxNext]_vars

----------------------------------------------------------------------------
(* The dropdown selections, call by call: select_row_react_select,          *)
(* select_stc and select_parkloc run on their own against a first-flight    *)
(* row whose header and data cells are drawn from DdRows.                   *)

\* A cell that is no <section> (a spacer div).
Gap == "gap"

IndexAmongSections(cells, x) ==
    LET sections == SelectSeq(cells, LAMBDA c : c # "gap")
        hits == {i \in 1..Len(sections) : sections[i] = x}
    IN  IF hits = {} THEN 0 - 1
        ELSE (CHOOSE i \in hits : \A h \in hits : i <= h) - 1

\* Array.from(el.parentElement.children).indexOf(el), counted from 0, for
\* the first cell of cells that is x; -1 when there is none.
IndexOf(cells, x) ==
    LET hits == {i \in 1..Len(cells) : cells[i] = x}
    IN  IF hits = {} THEN 0 - 1
        ELSE (CHOOSE i \in hits : \A h \in hits : i <= h) - 1

IsFieldItem(c) == c # Gap

\* (.//section[contains(@class,'ocs-field-item')]) in document order.
FieldSections(cells) == SelectSeq(cells, IsFieldItem)

\* The runs of the calls ops: any call may raise, which ends the run with a
\* timeout; a run in which at most lim calls can succeed (the element the
\* next one waits for is not there) stops there; a run in which all
\* succeed ends with atEnd.
Attempt(ops, lim, atEnd) ==
    {[events |-> RunOps(ops, k),
      raised |-> IF k < Len(ops) THEN "TimeoutError" ELSE atEnd] :
        k \in 0..(IF lim < Len(ops) THEN lim ELSE Len(ops))}

OpenOpsKeepsClicking(ctl, sec, openAt) ==
    LET click == Op("click", ctl, sec)
        seen == Op("menu_visible", ".ocs__menu", sec)
        unseen == Op("menu_hidden", ".ocs__menu", sec)
    IN  CASE openAt = 1 -> <<click, seen, click, seen>>
          [] openAt = 2 -> <<click, unseen, click, seen>>
          [] OTHER -> <<click, unseen, click, unseen>>

\* "for _ in range(2): control.click(force=True); ...; if menu.is_visible():
\* break": the menu is seen after click openAt, or after neither (0).
OpenOps(ctl, sec, openAt) ==
    LET click == Op("click", ctl, sec)
        seen == Op("menu_visible", ".ocs__menu", sec)
        unseen == Op("menu_hidden", ".ocs__menu", sec)
    IN  CASE openAt = 1 -> <<click, seen>>
          [] openAt = 2 -> <<click, unseen, click, seen>>
          [] OTHER -> <<click, unseen, click, unseen>>

\* What follows all of OpenOps succeeding: the for loop's else clause raises.
OpenEnd(openAt) == IF openAt = 0 THEN "DropdownNeverOpened" ELSE "none"

\* option = page.get_by_role("option", name=value); wait_for; click
OptionOps(value, openAt) ==
    IF openAt = 0 THEN <<>>
    ELSE <<Op("wait", "option", value), Op("click", "option", value)>>

\* The react-select input of the section when it has one, else the wrapper.
ControlOf(hasInput) == IF hasInput THEN "react-select input" ELSE ".ocs__control"

\* First-flight rows: the cells of the header and of the row of inputs after
\* it, in document order.  Header cells are the label sections and spacers;
\* data cells are the field sections (named by the control they hold) and
\* spacers.  Aligned rows, rows with one more column, with columns in
\* another order, with a spacer on one side only, with the label missing
\* and with too few field sections.
DdRows ==
    {[header |-> <<"A/P", "Date", "STC">>, data |-> <<"ap", "date", "stc">>],
     [header |-> <<"Date", "A/P", "STC">>, data |-> <<"date", "ap", "stc">>],
     [header |-> <<"Extra", "A/P", "STC">>, data |-> <<"extra", "ap", "stc">>],
     [header |-> <<"A/P", "STC">>, data |-> <<"extra", "ap", "stc">>],
     [header |-> <<Gap, "A/P", "STC">>, data |-> <<Gap, "ap", "stc">>],
     [header |-> <<Gap, "A/P", "STC">>, data |-> <<"ap", "stc">>],
     [header |-> <<"Date", "STC">>, data |-> <<"date", "stc">>],
     [header |-> <<"Date", "STC", "A/P">>, data |-> <<"date", "stc">>]}

\* The section the structural strategy arrives at: the one numbered
\* column_index + 1 among the field sections of the row of inputs; "" when
\* the label has no section in the header or the row has too few sections.
TargetSection(label, row) ==
    LET column_index == IndexOf(row.header, label)
        sections == FieldSections(row.data)
    IN  IF column_index >= 0 /\ column_index + 1 <= Len(sections)
        THEN sections[column_index + 1] ELSE ""

\* The calls of the structural strategy of select_row_react_select, steps 1
\* to 6, when the control has a react-select input or not, is visible after
\* the click on its section (vis1) and at the second look (vis2), and the
\* menu is seen after click openAt.
StructuralOps(label, value, row, hasInput, vis1, vis2, openAt) ==
    LET sec == TargetSection(label, row)
        ctl == ControlOf(hasInput)
        look(v) == Op(IF v THEN "control_visible" ELSE "control_hidden", ctl, sec)
    IN  <<Op("wait_visible", "row", ""),
          Op("wait_visible", "header", ""),
          Op("wait_visible", "label_section", label),
          Op("evaluate", "indexOf", label),
          Op("wait_visible", "field_row", ""),
          Op("wait_visible", "target_section", sec),
          Op("count", "react-select input", sec),
          Op("wait_attached", ctl, sec),
          Op("scroll", "target_section", sec),
          Op("click", "target_section", sec),
          look(vis1)>>
        \o (IF vis1 THEN <<>> ELSE <<Op("click", ctl, sec)>>)
        \o <<look(vis2)>>
        \o (IF vis2 THEN <<>> ELSE <<Op("dump", "debug log", sec)>>)
        \o <<Op("wait_visible", ctl, sec)>>
        \o OpenOps(ctl, sec, openAt)
        \o OptionOps(value, openAt)

\* How many calls of StructuralOps can succeed on the row: the wait for the
\* label's section, or for the target section, cannot when there is none.
StructuralLimit(label, row) ==
    IF IndexOf(row.header, label) < 0 THEN 2
    ELSE IF TargetSection(label, row) = "" THEN 5
    ELSE 100

\* The runs of the try block of select_row_react_select (lines 123-203).
StructuralRuns(label, value, row) ==
    UNION {Attempt(StructuralOps(label, value, row, h, v[1], v[2], o),
                   StructuralLimit(label, row), OpenEnd(o)) :
              h \in BOOLEAN, v \in BOOLEAN \X BOOLEAN, o \in 0..2}

\* The section the proximity strategy arrives at.  With the index of the
\* label's own field section in hand it is the section of that number in the
\* row of inputs; without it, the first field section after the label in
\* document order (the header's sections are field sections exactly when the
\* label has such an ancestor).  "" when there is none.
FallbackSection(label, row, hasSection, evalOk) ==
    IF hasSection /\ evalOk THEN TargetSection(label, row)
    ELSE LET at == IndexOf(row.header, label) + 1
             after == IF hasSection
                      THEN FieldSections(SubSeq(row.header, at + 1, Len(row.header)))
                      ELSE <<>>
             following == after \o FieldSections(row.data)
         IN  IF following = <<>> THEN "" ELSE following[1]

\* A section of the row of inputs holds a control; a header section holds none.
HasControl(sec, row) == \E i \in 1..Len(row.data) : row.data[i] = sec /\ sec # Gap

\* The calls of the proximity strategy (lines 216-279); an exception of the
\* evaluate call is caught on the spot and leaves section_index at -1.
FallbackOps(label, value, row, hasSection, evalOk, hasInput, openAt) ==
    LET sec == FallbackSection(label, row, hasSection, evalOk)
        ctl == ControlOf(hasInput)
    IN  <<Op("wait_visible", "row", ""),
          Op("wait_visible", "label", label),
          Op("count", "ancestor section", label)>>
        \o (IF hasSection
            THEN <<Op(IF evalOk THEN "evaluate" ELSE "evaluate_raised", "indexOf", label)>>
            ELSE <<>>)
        \o <<Op("count", "react-select input", sec),
             Op("wait_visible", ctl, sec),
             Op("scroll", ctl, sec)>>
        \o OpenOps(ctl, sec, openAt)
        \o OptionOps(value, openAt)

FallbackLimit(label, row, hasSection, evalOk) ==
    IF IndexOf(row.header, label) < 0 THEN 1
    ELSE IF ~HasControl(FallbackSection(label, row, hasSection, evalOk), row)
         THEN (IF hasSection THEN 5 ELSE 4)
    ELSE 100

\* The runs of the fallback try block of select_row_react_select.
FallbackRuns(label, value, row) ==
    UNION {Attempt(FallbackOps(label, value, row, s[1], s[2], h, o),
                   FallbackLimit(label, row, s[1], s[2]), OpenEnd(o)) :
              s \in {<<TRUE, TRUE>>, <<TRUE, FALSE>>, <<FALSE, FALSE>>},
              h \in BOOLEAN, o \in 0..2}

\* The runs of select_stc (lines 287-328): the inline STC control, or, when
\* one of its two waits raises, the combined service-type control.
SelectStcDetail(value) ==
    LET row == Op("wait_visible", "row", "")
        inlineOps == <<Op("wait_visible", "stc_section", ""),
                       Op("wait_visible", "STC", "")>>
        rest(k, o) ==
            (IF k = 2 THEN <<>> ELSE <<Op("wait_visible", "service-type", "")>>)
            \o <<Op("scroll", IF k = 2 THEN "STC" ELSE "service-type", "")>>
            \o OpenOps(IF k = 2 THEN "STC" ELSE "service-type", "", o)
            \o OptionOps(value, o)
    IN  {[events |-> RunOps(<<row>>, 0), raised |-> "TimeoutError"]}
        \cup UNION {{[events |-> RunOps(<<row>>, 1) \o RunOps(inlineOps, k) \o a.events,
                      raised |-> a.raised] :
                        a \in Attempt(rest(k, o), 100, OpenEnd(o))} :
                    k \in 0..2, o \in 0..2}

\* The runs of select_parkloc (lines 331-363) on a row with n controls.
SelectParkLocDetail(value) ==
    LET row == Op("wait_visible", "row", "")
        count(n) == Op("count", ".ocs__control", CASE n = 0 -> "0" [] n = 1 -> "1" [] OTHER -> "2")
        rest(o) == <<Op("wait_visible", "controls.nth(count - 1)", ""),
                     Op("scroll", "controls.nth(count - 1)", "")>>
                   \o OpenOps("controls.nth(count - 1)", "", o)
                   \o OptionOps(value, o)
    IN  Attempt(<<row, count(0)>>, 100, "NoControls")
        \cup UNION {{[events |-> RunOps(<<row, count(n)>>, 2) \o a.events,
                      raised |-> a.raised] :
                        a \in Attempt(rest(o), 100, OpenEnd(o))} :
                    n \in 1..2, o \in 0..2}

\* The dropdown calls book_slot makes: the A/P selection on every row, the
\* service-type selection and the ParkLoc selection.
DdCalls ==
    {[fn |-> "select_row_react_select", label |-> "A/P", value |-> v, row |-> r,
      first |-> "none", out |-> "none"] : v \in {"CYYZ", "CYUL"}, r \in DdRows}
    \cup {[fn |-> f, label |-> "", value |-> IF f = "select_stc" THEN "D" ELSE v,
           row |-> [header |-> <<>>, data |-> <<>>],
           first |-> "none", out |-> "none"] :
             f \in {"select_stc", "select_parkloc"}, v \in {"SKYCHARTER", "HANGAR"}}

DdInit ==
    /\ pw = None /\ browser = None /\ context = None /\ page = None
    /\ launches = 0 /\ bookings = 0 /\ autofill = NoRun
    /\ pc = "idle" /\ call = "none" /\ exc = "none"
    /\ creds = NoCreds /\ instruction = <<>> /\ slot = NoSlot
    /\ operation = "" /\ parkloc = ""
    /\ trace = <<>> /\ phases = <<>>
    /\ px \in DdCalls

DdFrame == UNCHANGED <<pw, browser, context, page, launches, bookings, autofill, creds,
                       instruction, slot, operation, parkloc, phases>>

\* select_row_react_select, the try block: True is returned, or the
\* exception is caught and the fallback follows.
DdStructural ==
    /\ pc = "idle" /\ px.fn = "select_row_react_select"
    /\ DdFrame
    /\ call' = px.fn /\ exc' = exc
    /\ \E r \in StructuralRuns(px.label, px.value, px.row) :
          /\ trace' = r.events
          /\ IF r.raised = "none"
             THEN pc' = "done" /\ px' = [px EXCEPT !.out = "True"]
             ELSE pc' = "dd_fallback" /\ px' = [px EXCEPT !.first = r.raised]

SelectRowResultAlwaysTrue(raised) == "True"

\* What the fallback path returns: True after the option click, False from
\* its except clause.
SelectRowResult(raised) == IF raised = "none" THEN "True" ELSE "False"

\* select_row_react_select, the except clause: the error is logged, the
\* section is dumped when the try block got as far as naming it, and the
\* proximity strategy runs; its exception is logged and False is returned.
DdFallback ==
    /\ pc = "dd_fallback"
    /\ DdFrame
    /\ call' = call /\ exc' = exc /\ pc' = "done"
    /\ \E r \in FallbackRuns(px.label, px.value, px.row) :
          /\ trace' = <<Ev("log", "ERROR selecting", px.label, TRUE)>>
                      \o (IF Len(trace) >= 6
                          THEN <<Ev("dump", "debug log", trace[6].val, TRUE)>>
                          ELSE <<>>)
                      \o r.events
                      \o (IF r.raised = "none" THEN <<>>
                          ELSE <<Ev("log", "FALLBACK ERROR selecting", px.label, TRUE)>>)
          /\ px' = [px EXCEPT !.out = SelectRowResult(r.raised)]

\* select_stc or select_parkloc, from call to return or raise.
DdSelect ==
    /\ pc = "idle" /\ px.fn \in {"select_stc", "select_parkloc"}
    /\ DdFrame
    /\ call' = px.fn /\ pc' = "done"
    /\ \E r \in (IF px.fn = "select_stc" THEN SelectStcDetail(px.value)
                 ELSE SelectParkLocDetail(px.value)) :
          /\ trace' = r.events
          /\ exc' = r.raised
          /\ px' = [px EXCEPT !.out = IF r.raised = "none" THEN "returned" ELSE "raised"]

DdNext == DdStructural \/ DdFallback \/ DdSelect

DdSpec == DdInit /\ [][DdNext]_vars

----------------------------------------------------------------------------
(* _apply_slot_defaults alone, over every slot record, applied again to *)
(* the dict it has already changed                                      *)

\* Slot records: each of operation, parkloc, ac_type, acreg and seats
\* missing, empty or given.
DxSlots ==
    {[operation |-> o, airport |-> "CYUL", acreg |-> r, date |-> "27NOV",
      seats |-> n, ac_type |-> t, time |-> "0800", other_airport |-> "KTEB",
      parkloc |-> l] :
        o \in {Absent, "Departure", "arrival"},
        l \in {Absent, "", "HANGAR"},
        t \in {Absent, "", "E545", "C25A", "C25B", "PC12"},
        r \in {Absent, "", "CGXYZ"},
        n \in {Absent, "", "5"}}

DxInit ==
    /\ pw = None /\ browser = None /\ context = None /\ page = None
    /\ launches = 0 /\ bookings = 0 /\ autofill = NoRun
    /\ pc = "idle" /\ call = "none" /\ exc = "none"
    /\ creds = NoCreds /\ instruction = <<>>
    /\ operation = "" /\ parkloc = ""
    /\ trace = <<>> /\ phases = <<>>
    /\ slot \in DxSlots
    /\ px = [n |-> 0, orig |-> slot, once |-> [slot |-> slot, operation |-> "", parkloc |-> ""]]

\* operation, parkloc = self._apply_slot_defaults(slot), on the same dict
\* a first and a second time.
DxApply ==
    /\ px.n < 2
    /\ slot' = ApplySlotDefaults(slot).slot
    /\ operation' = ApplySlotDefaults(slot).operation
    /\ parkloc' = ApplySlotDefaults(slot).parkloc
    /\ px' = [px EXCEPT !.n = px.n + 1,
                        !.once = IF px.n = 0 THEN ApplySlotDefaults(slot) ELSE px.once]
    /\ UNCHANGED <<pw, browser, context, page, launches, bookings, autofill, pc, call, exc, creds,
                   instruction, trace, phases>>

DxNext == DxApply

DxSpec == DxInit /\ [][DxNext]_vars

----------------------------------------------------------------------------
(* fill_text_cell alone, call by call, for every label book_slot fills *)
(* and for one that has no direct selector                             *)

selector_map_time_swapped ==
    [l \in {"A/C Reg", "Date", "Seats", "A/C Type", "Time", "Dest", "Orig"} |->
        CASE l = "A/C Reg" -> <<"#aircraftRegistration">>
          [] l = "Date" -> <<"input[name='startDate']">>
          [] l = "Seats" -> <<"#numSeats">>
          [] l = "A/C Type" -> <<"#aircraftType">>
          [] l = "Time" -> <<"#clearedTimeArr", "#clearedTimeDep">>
          [] l = "Dest" -> <<"#destinationStation">>
          [] OTHER -> <<"#originStation">>]

\* selector_map, with a single selector as the list of one that
\* direct_selectors makes of it.
selector_map ==
    [l \in {"A/C Reg", "Date", "Seats", "A/C Type", "Time", "Dest", "Orig"} |->
        CASE l = "A/C Reg" -> <<"#aircraftRegistration">>
          [] l = "Date" -> <<"input[name='startDate']">>
          [] l = "Seats" -> <<"#numSeats">>
          [] l = "A/C Type" -> <<"#aircraftType">>
          [] l = "Time" -> <<"#clearedTimeDep", "#clearedTimeArr">>
          [] l = "Dest" -> <<"#destinationStation">>
          [] OTHER -> <<"#originStation">>]

\* selector_map.get(label_text), <<>> for None
DirectSelectors(label) ==
    IF label \in DOMAIN selector_map THEN selector_map[label] ELSE <<>>

\* fill_field_by_selector: wait for the element, fill it.
FillFieldBySelector(selector, value) ==
    Attempt(<<Op("wait_visible", selector, ""), Op("fill", selector, value)>>,
            100, "none")

DirectAcceptedNever(a) == FALSE

\* fill_field_by_selector returned: fill_text_cell returns.
DirectAccepted(a) == a.raised = "none"

RECURSIVE DirectRuns(_, _)
\* The loop over direct_selectors: the runs, and whether one filled.
DirectRuns(selectors, value) ==
    IF selectors = <<>> THEN {[events |-> <<>>, filled |-> FALSE]}
    ELSE UNION {IF DirectAccepted(a)
                THEN {[events |-> a.events, filled |-> TRUE]}
                ELSE {[events |-> a.events \o d.events, filled |-> d.filled] :
                         d \in DirectRuns(Tail(selectors), value)} :
                  a \in FillFieldBySelector(Head(selectors), value)}

\* The label-relative lookup: the label in the first-flight row or, when
\* that raises, anywhere on the page; then the first input of the section
\* after the label's.
LabelRelativeRuns(label, value) ==
    LET inRow == <<Op("wait_visible", "row", ""), Op("wait_visible", "row label", label)>>
        rest(k) ==
            (IF k < 2 THEN <<Op("wait_visible", "page label", label)>> ELSE <<>>)
            \o <<Op("scroll", "container", label),
                 Op("wait_visible", "label-relative input", label),
                 Op("scroll", "label-relative input", label),
                 Op("fill", "label-relative input", value)>>
    IN  UNION {{[events |-> RunOps(inRow, k) \o a.events, raised |-> a.raised] :
                   a \in Attempt(rest(k), 100, "none")} : k \in 0..2}

\* A line written by the built-in print: it goes to the standard output and
\* not to the debug log file.
StdoutLine(msg, arg) == Ev("stdout", msg, arg, TRUE)

\* The runs of fill_text_cell(page, label, value); the failure of the direct
\* selectors is reported with print.
FillTextCellRuns(label, value) ==
    LET failed == IF DirectSelectors(label) = <<>> THEN <<>>
                  ELSE <<StdoutLine("Direct selector failed", label)>>
    IN  UNION {IF d.filled THEN {[events |-> d.events, raised |-> "none"]}
               ELSE {[events |-> d.events \o failed \o l.events, raised |-> l.raised] :
                        l \in LabelRelativeRuns(label, value)} :
                 d \in DirectRuns(DirectSelectors(label), value)}

\* Where a lookup of fill_text_cell searches: page.locator(selector) and the
\* second label lookup search the whole page, the first label lookup the
\* first-flight row; the input is found from the label that was found.
LookupScope(target, viaPageLabel) ==
    CASE target = "page label" -> "page"
      [] target \in {"row", "row label"} -> "row"
      [] target \in {"container", "label-relative input"} ->
            IF viaPageLabel THEN "page" ELSE "row"
      [] OTHER -> "page"

\* The calls of fill_text_cell, on a page where the elements a page-wide
\* lookup matches lie in the first-flight row, or elsewhere on the page.
FtCalls ==
    {[fn |-> "fill_text_cell", label |-> l, value |-> v, elsewhere |-> w,
      out |-> "none"] :
        l \in DOMAIN selector_map \cup {"Remarks"}, v \in {"0800", "KTEB"},
        w \in BOOLEAN}

FtInit ==
    /\ pw = None /\ browser = None /\ context = None /\ page = None
    /\ launches = 0 /\ bookings = 0 /\ autofill = NoRun
    /\ pc = "idle" /\ call = "none" /\ exc = "none"
    /\ creds = NoCreds /\ instruction = <<>> /\ slot = NoSlot
    /\ operation = "" /\ parkloc = ""
    /\ trace = <<>> /\ phases = <<>>
    /\ px \in FtCalls

\* fill_text_cell, from call to return or raise.
FtApply ==
    /\ pc = "idle"
    /\ call' = px.fn /\ pc' = "done"
    /\ \E r \in FillTextCellRuns(px.label, px.value) :
          /\ trace' = r.events
          /\ exc' = r.raised
          /\ px' = [px EXCEPT !.out = IF r.raised = "none" THEN "returned" ELSE "raised"]
    /\ UNCHANGED <<pw, browser, context, page, launches, bookings, autofill, creds,
                   instruction, slot, operation, parkloc, phases>>

FtNext == FtApply

FtSpec == FtInit /\ [][FtNext]_vars

----------------------------------------------------------------------------
(* Properties *)

TraceSet == {trace[i] : i \in 1..Len(trace)}

\* An interaction with the challenge inputs or the challenge's Login control.
IsChallengeInput(e) ==
    e.target \in {"inputs.nth(0)", "inputs.nth(1)", "form button Login"}

IsSelect(e) == e.op \in {"select", "select:structural", "select:proximity"}

IsSendAll(e) == e.op = "click" /\ e.target = "#sendAllBtn"

\* The ordinal words in order: the position of a word is the number it names.
OrdinalsInOrder ==
    <<"first", "second", "third", "fourth", "fifth",
      "sixth", "seventh", "eighth", "ninth", "tenth">>

IsOrdinal(w) == \E i \in 1..Len(OrdinalsInOrder) : OrdinalsInOrder[i] = Lower(w)

PositionOf(w) == CHOOSE i \in 1..Len(OrdinalsInOrder) : OrdinalsInOrder[i] = Lower(w)

\* "Please type the <w1> and <w2> character...": the words sit in fourth and
\* sixth place of the text.
HasGrammar(instr) ==
    /\ Len(instr) >= 7
    /\ Lower(instr[3]) = "the"
    /\ Lower(instr[5]) = "and"
    /\ Lower(instr[7]) \in {"character", "characters"}

WellFormed(instr) ==
    HasGrammar(instr) /\ IsOrdinal(instr[4]) /\ IsOrdinal(instr[6])

\* The larger of the two positions a well-formed instruction names.
Needed(instr) == Max(PositionOf(instr[4]), PositionOf(instr[6]))

\* start() ended after the challenge failed for one of the three reasons.
StartEndedWithAuthError ==
    /\ call = "start" /\ pc = "done"
    /\ \/ exc \in {"CouldNotParse", "UnknownOrdinals"}
       \/ TooShortDialog \in TraceSet

\* C1: when start() ends with an authentication error (instruction not
\* parsed, ordinal unknown, passphrase too short) the session holds no page:
\* is_active is false, so book_slot is rejected (its guard is "not self.page")
\* and a later start() does not return at once (its guard is "self.page").
C1_AuthErrorLeavesSessionUnusable == StartEndedWithAuthError => ~IsActive

\* The challenge was read, is well formed, and the stored passphrase is
\* shorter than the larger position it names.
ChallengeTooShort ==
    /\ call = "start" /\ instruction # <<>>
    /\ WellFormed(instruction)
    /\ Len(creds.passphrase) < Needed(instruction)

\* C2: when the challenge is detected and the stored passphrase is shorter
\* than max(idx1, idx2), no challenge input is filled and the challenge's
\* Login control is not clicked; the error dialog is shown, nothing is done on
\* the page after it (only the teardown), the page handle is reset, and
\* start() does not return normally.
C2_TooShortNoFillNoSubmit ==
    ChallengeTooShort =>
        /\ \A e \in TraceSet : ~IsChallengeInput(e)
        /\ TooShortDialog \in TraceSet
        /\ \A i \in 1..Len(trace) : trace[i] = TooShortDialog =>
              \A j \in (i + 1)..Len(trace) : trace[j].op \in {"close", "stop"}
        /\ page = None
        /\ pc \in {"start_nav", "done"}
        /\ pc = "done" => exc # "none"

C2_Witness ==
    /\ ChallengeTooShort /\ pc = "done" /\ exc = "AttributeError"
    /\ Len(creds.passphrase) >= PositionOf(instruction[4])

\* C3: when the challenge is detected and its text does not have the
\* "the <w1> and <w2> character" grammar, or a word is none of first..tenth
\* in any case, _login ends with that error and no challenge input is
\* filled nor the challenge's Login control clicked.
C3_BadInstructionRaises ==
    (call = "start" /\ instruction # <<>> /\ ~WellFormed(instruction)) =>
        /\ pc = "done"
        /\ exc = (IF HasGrammar(instruction) THEN "UnknownOrdinals" ELSE "CouldNotParse")
        /\ \A e \in TraceSet : ~IsChallengeInput(e)

C3_Witness ==
    /\ call = "start" /\ pc = "done" /\ exc = "UnknownOrdinals"
    /\ instruction # <<>> /\ HasGrammar(instruction)

\* C4: for every pair of ordinal words and every passphrase at least as long
\* as the larger position named, the step extracts the characters at exactly
\* those positions (counted from one), and the word-to-number mapping sends
\* first..tenth to 1..10 in order.
C4_ExtractsNamedPositions ==
    (/\ px.out.kind # "none"
     /\ IsOrdinal(px.instr[4]) /\ IsOrdinal(px.instr[6])
     /\ Len(px.phrase) >= Needed(px.instr)) =>
        /\ px.out.kind = "Fill"
        /\ px.out.idx1 = PositionOf(px.instr[4])
        /\ px.out.idx2 = PositionOf(px.instr[6])
        /\ px.out.char1 = px.phrase[PositionOf(px.instr[4])]
        /\ px.out.char2 = px.phrase[PositionOf(px.instr[6])]

C4_Witness ==
    /\ px.instr[4] = "tenth" /\ px.instr[6] = "first"
    /\ Len(px.phrase) = 10
    /\ px.out.kind = "Fill" /\ px.out.char1 = "j" /\ px.out.char2 = "a"

\* The interactions with the challenge inputs, in the order issued.
ChallengeEvents == SelectSeq(trace, IsChallengeInput)

\* What a well-formed challenge asks for, in order.
ChallengeExpected(instr, phrase) ==
    <<Op("fill", "inputs.nth(0)", phrase[PositionOf(instr[4])]),
      Op("fill", "inputs.nth(1)", phrase[PositionOf(instr[6])]),
      Op("click", "form button Login", "")>>

\* C5: in a valid challenge the character of the first-named position is
\* written to the first input, then that of the second-named position to the
\* second input, and Login is clicked only after both fills succeeded
\* ("fourth and seventh" with "abcdefgh": "d", then "g", then the click).
C5_FillsInOrderThenLogin ==
    LET ce == ChallengeEvents
    IN  ce # <<>> =>
          /\ WellFormed(instruction) /\ Len(creds.passphrase) >= Needed(instruction)
          /\ Len(ce) <= 3
          /\ \A i \in 1..Len(ce) :
                LET want == ChallengeExpected(instruction, creds.passphrase)[i]
                IN  /\ ce[i].op = want.op /\ ce[i].target = want.target
                    /\ ce[i].val = want.val
                    /\ i < Len(ce) => ce[i].ok
          /\ (instruction[4] = "fourth" /\ instruction[6] = "seventh" /\ Len(ce) = 3)
                => ce[1].val = "d" /\ ce[2].val = "g"

C5_Witness ==
    /\ pc = "start_nav" /\ WellFormed(instruction)
    /\ instruction[4] = "fourth" /\ instruction[6] = "seventh"
    /\ creds.passphrase = Phrase(8)
    /\ Len(ChallengeEvents) = 3 /\ ChallengeEvents[3].ok
    /\ ChallengeEvents[1].val = "d" /\ ChallengeEvents[2].val = "g"

LoginBranches ==
    <<"EntryLogin", "NativeLogin", "FederatedLogin", "ConflictRecovery",
      "PassphraseChallenge">>

IsPrefix(s, t) == Len(s) <= Len(t) /\ s = SubSeq(t, 1, Len(s))

\* _login was entered in the call of start() that is running or just ended.
LoginRan == call = "start" /\ (trace # <<>> \/ phases # <<>>)

\* C6 as stated: every run of _login probes all five branches, in order, once.
C6_EveryRunProbesAllBranches ==
    (LoginRan /\ pc = "done") => phases = LoginBranches

\* C6, amended: the branches are probed in the fixed order, each at most
\* once; all five are probed in every run that gets past the passphrase
\* step; a run that ends before it has probed all five ended because the
\* first page load raised, because the page-load wait before the passphrase
\* step timed out, or because a call of the conflict branch raised something
\* other than a timeout; and no timed-out probe ends the run.
C6_BranchesProbedInOrder ==
    call = "start" =>
        /\ IsPrefix(phases, LoginBranches)
        /\ pc \in {"login_final_wait", "start_nav"} => phases = LoginBranches
        /\ (pc = "done" /\ LoginRan /\ phases # LoginBranches) =>
              \/ phases = <<>> /\ trace = <<Ev("goto", "root", "", FALSE)>>
              \/ /\ Len(phases) = 4
                 /\ trace = <<Ev("wait", "networkidle", "", FALSE)>>
              \/ /\ Len(phases) = 4 /\ exc = "Error"
                 /\ ~trace[Len(trace)].ok
                 /\ trace[1].target = "text=already logged in"
        /\ (pc = "done" /\ phases = LoginBranches
               /\ trace = <<Ev("wait", "text=Please type the", "", FALSE)>>)
              => exc = "Error"

C6_Witness ==
    /\ call = "start" /\ pc = "start_nav" /\ page # None
    /\ phases = LoginBranches
    /\ trace[1] = Ev("wait", "text=Please type the", "", FALSE)

\* The field operations book_slot has for the slot after its defaults.
FieldsOf(s, op) ==
    {f \in {"A/C Reg", "Date", "Seats", "A/C Type", "Time", "Dest", "Orig"} :
        CASE f = "A/C Reg" -> Truthy(s.acreg)
          [] f = "Date" -> Truthy(s.date)
          [] f = "Seats" -> Truthy(s.seats)
          [] f = "A/C Type" -> Truthy(s.ac_type)
          [] f = "Time" -> Truthy(s.time)
          [] f = "Dest" -> Truthy(s.other_airport) /\ op = "departure"
          [] OTHER -> Truthy(s.other_airport) /\ op # "departure"}

\* C7: a failed fill or dropdown operation on one field does not abort the
\* booking: every field operation of the sequence for the slot, and the
\* service-type selection, has been attempted when book_slot ends.
C7_FieldFailureDoesNotAbort ==
    (/\ call = "book_slot" /\ pc = "done"
     /\ \E e \in TraceSet : ~e.ok /\ (e.op = "fill" \/ IsSelect(e))) =>
        /\ \A f \in FieldsOf(slot, operation) :
              \E e \in TraceSet : e.op = "fill" /\ e.target = f
        /\ \E e \in TraceSet : e.op = "select" /\ e.target \in {"STC", "service-type"}

\* C8: when the A/P selection fails, no later fill or selection is attempted
\* and Send All is not clicked.
C8_AirportFailureAbortsBooking ==
    call = "book_slot" =>
        \A i \in 1..Len(trace) : trace[i] = AirportDialog =>
            \A j \in (i + 1)..Len(trace) :
                /\ trace[j].op # "fill"
                /\ ~IsSelect(trace[j])
                /\ ~IsSendAll(trace[j])

\* A call of click_add_slot_button that raised.
AddRowFailure(e) ==
    /\ ~e.ok
    /\ e.op \in {"wait_visible", "click"}
    /\ e.target \in {"p=Departure", "p=Arrival", "ocs-double-btn", "Add A/C Reg"}

\* C9: when the add-row control cannot be activated (header, container or
\* button not visible, or the click fails), book_slot ends with the
\* exception and no selection, no fill and no Send All click was issued.
C9_AddRowFailureAbortsBooking ==
    (call = "book_slot" /\ \E e \in TraceSet : AddRowFailure(e)) =>
        /\ pc = "done" /\ exc # "none"
        /\ \A e \in TraceSet : e.op # "fill" /\ ~IsSelect(e) /\ ~IsSendAll(e)

C9_Witness ==
    /\ call = "book_slot" /\ pc = "done" /\ trace # <<>>
    /\ trace[Len(trace)] = Ev("click", "Add A/C Reg", "", FALSE)

\* C10: for a CYYZ booking no ParkLoc selection is performed, and a booking
\* that got to Send All selected on the combined service-type control.
C10_CyyzSkipsParkLoc ==
    (call = "book_slot" /\ slot.airport = "CYYZ") =>
        /\ \A e \in TraceSet : ~(e.op = "select" /\ e.target = "ParkLoc")
        /\ (\E e \in TraceSet : IsSendAll(e)) =>
              \E e \in TraceSet : e.op = "select" /\ e.target = "service-type" /\ e.ok

\* The menu was not visible after either of the two clicks of an opening loop.
NeverOpened ==
    \/ px.first = "DropdownNeverOpened"
    \/ Cardinality({i \in 1..Len(trace) : trace[i].op = "menu_hidden" /\ trace[i].ok}) = 2

IsOptionClick(e) == e.op = "click" /\ e.target = "option"

\* C11: for every dropdown selection of a booking (A/P, STC, ParkLoc), when
\* the options menu is not visible after each of the two open attempts the
\* selection fails with the dropdown-never-opened error (raised, or logged
\* with False returned) and no option is clicked in it.
C11_NeverOpenedRaisesNoOptionClick ==
    (pc = "done" /\ NeverOpened) =>
        /\ exc = "DropdownNeverOpened" \/ px.out = "False"
        /\ \A e \in TraceSet : ~IsOptionClick(e)

\* C12: _apply_slot_defaults applied twice leaves the slot, and returns the
\* operation and parkloc, that one application does; and a non-empty seats,
\* acreg or ac_type value that was supplied is never changed, whatever the
\* aircraft type.
C12_DefaultsIdempotentNonDestructive ==
    /\ px.n = 2 =>
          [slot |-> slot, operation |-> operation, parkloc |-> parkloc] = px.once
    /\ px.n >= 1 =>
          /\ Truthy(px.orig.seats) => slot.seats = px.orig.seats
          /\ Truthy(px.orig.acreg) => slot.acreg = px.orig.acreg
          /\ Truthy(px.orig.ac_type) => slot.ac_type = px.orig.ac_type

C12_Witness ==
    /\ px.n = 2 /\ px.orig.seats = "5" /\ px.orig.ac_type = "C25A"
    /\ px.orig.acreg = Absent
    /\ slot.seats = "5" /\ slot.acreg = "CFASP"

\* C13: with no seats and no registration supplied the defaults are the
\* fixed table: E545, or no type (which becomes E545), gives seats "9" and
\* CGASL; C25A gives "7" and CFASP; C25B gives "7" and CFASY.
C13_DefaultTable ==
    (px.n >= 1 /\ ~Truthy(px.orig.seats) /\ ~Truthy(px.orig.acreg)) =>
        /\ ~Truthy(px.orig.ac_type) => slot.ac_type = "E545"
        /\ slot.ac_type = "E545" => slot.seats = "9" /\ slot.acreg = "CGASL"
        /\ slot.ac_type = "C25A" => slot.seats = "7" /\ slot.acreg = "CFASP"
        /\ slot.ac_type = "C25B" => slot.seats = "7" /\ slot.acreg = "CFASY"

C13_Witness ==
    /\ px.n = 1 /\ px.orig.ac_type = "C25B"
    /\ px.orig.seats = Absent /\ px.orig.acreg = ""
    /\ slot.seats = "7" /\ slot.acreg = "CFASY"

\* A call on the remote page, as opposed to a log line or a dialog.
IsRemote(e) == e.op \notin {"reset_log", "log", "stdout", "showerror", "showinfo"}

\* C14: in every book_slot call on an active session the defaults are applied
\* exactly once, before any remote interaction of the booking: when the
\* navigation guard is about to run nothing has been done on the page, and
\* from then on the slot holds its defaults.
C14_DefaultsOnceBeforeRemote ==
    (call = "book_slot" /\ page # None) =>
        /\ IsPrefix(BookEntry, phases)
        /\ Cardinality({i \in 1..Len(phases) : phases[i] = "_apply_slot_defaults"}) = 1
        /\ Truthy(slot.ac_type)
        /\ ApplySlotDefaults(slot).slot = slot
        /\ operation = ApplySlotDefaults(slot).operation
        /\ pc = "book_guard" => \A e \in TraceSet : ~IsRemote(e)

C14_Witness ==
    /\ call = "book_slot" /\ pc = "book_guard" /\ page # None
    /\ slot.ac_type = "E545" /\ slot.seats = "9" /\ slot.acreg = "CGXYZ"
    /\ trace = <<Ev("reset_log", "ocs_autofill_debug.log", "", TRUE)>>

\* C15: book_slot, and ensure_add_flights_page, on a session that holds no
\* page (never started, or closed) ends with RuntimeError and has done
\* nothing: no remote interaction, no reset of the debug log, and the slot
\* record is the one that was passed.
C15_RejectedWithoutPage ==
    (call \in {"book_slot", "ensure_add_flights_page"} /\ page = None) =>
        /\ pc = "done" /\ exc = "RuntimeError"
        /\ trace = <<>> /\ phases = <<>>
        /\ slot \in (IF call = "book_slot" THEN Slots ELSE {NoSlot})

C15_Witness ==
    /\ call = "book_slot" /\ page = None /\ bookings >= 1
    /\ exc = "RuntimeError" /\ slot.ac_type = "" /\ slot.seats = Absent

\* The navigation guard of the running book_slot call has seen both headers.
GuardPassed ==
    /\ \E i \in 1..Len(phases) : phases[i] = "ensure_add_flights_page"
    /\ Len(trace) >= 2
    /\ trace[1] = Ev("wait", "p=Departure", "", TRUE)
    /\ trace[2] = Ev("wait", "p=Arrival", "", TRUE)

IsAddRow(e) == e.target \in {"ocs-double-btn", "Add A/C Reg"}

\* C16: the navigation guard runs in every book_slot call, the second and
\* later ones of a session too: a call past the guard step has either seen
\* both the Departure and the Arrival header or ended in the guard; and the
\* add-row control is clicked, and a field filled, only after both were seen.
C16_GuardInEveryBooking ==
    (call = "book_slot" /\ page # None) =>
        /\ pc # "book_guard" =>
              \/ GuardPassed
              \/ /\ pc = "done" /\ exc # "none"
                 /\ trace # <<>> /\ trace[1].op = "is_visible"
        /\ (\E e \in TraceSet : IsAddRow(e) \/ e.op = "fill" \/ IsSelect(e)) => GuardPassed

C16_Witness ==
    /\ call = "book_slot" /\ bookings = 2 /\ pc = "book_date"
    /\ GuardPassed
    /\ \E e \in TraceSet : e.op = "fill" /\ e.ok

\* The step of the booking a remote action belongs to; "" for a wait,
\* a scroll or a look.
StepOf(e) ==
    CASE e.op = "click" /\ e.target = "Add A/C Reg" -> <<"add-row", "">>
      [] IsSelect(e) /\ e.target = "A/P" -> <<"airport", e.val>>
      [] e.op = "fill" -> <<e.target, e.val>>
      [] e.op = "press" -> <<"press", e.target>>
      [] IsSelect(e) /\ e.target \in {"STC", "service-type"} -> <<"service-type", e.val>>
      [] IsSelect(e) /\ e.target = "ParkLoc" -> <<"parking", e.val>>
      [] IsSendAll(e) -> <<"send-all", "">>
      [] OTHER -> <<>>

RECURSIVE StepsOf(_)
\* The steps of a run of interactions, a step that takes several
\* interactions (the two strategies of a selection) counted once.
StepsOf(t) ==
    IF t = <<>> THEN <<>>
    ELSE LET rest == StepsOf(Tail(t))
             step == StepOf(Head(t))
         IN  IF step = <<>> \/ (rest # <<>> /\ Head(rest) = step) THEN rest
             ELSE <<step>> \o rest

\* The order of steps the specification gives for the slot.
ExpectedSteps(s, op, pl) ==
    <<<<"add-row", "">>>>
    \o (IF Truthy(s.airport) THEN <<<<"airport", s.airport>>>> ELSE <<>>)
    \o (IF Truthy(s.acreg) THEN <<<<"A/C Reg", s.acreg>>>> ELSE <<>>)
    \o (IF Truthy(s.date) THEN <<<<"Date", s.date>>, <<"press", "Escape">>>> ELSE <<>>)
    \o (IF Truthy(s.seats) THEN <<<<"Seats", s.seats>>>> ELSE <<>>)
    \o (IF Truthy(s.ac_type) THEN <<<<"A/C Type", s.ac_type>>>> ELSE <<>>)
    \o (IF Truthy(s.time) THEN <<<<"Time", s.time>>>> ELSE <<>>)
    \o (IF Truthy(s.other_airport)
        THEN <<<<IF op = "departure" THEN "Dest" ELSE "Orig", s.other_airport>>>>
        ELSE <<>>)
    \o <<<<"service-type", "D">>>>
    \o (IF s.airport = "CYYZ" THEN <<<<"parking", pl>>>> ELSE <<>>)
    \o <<<<"send-all", "">>>>

\* C17: the remote actions of a book_slot that clicked Send All are, after
\* the navigation guard, in the fixed order add-row click, airport selection,
\* registration, date and Escape, seats, type, time, Dest or Orig, service
\* type "D", parking selection for CYYZ, Send All; Send All is clicked at
\* most once and no click, fill, keypress or selection follows it.
C17_FixedOrderOfActions ==
    call = "book_slot" =>
        /\ Cardinality({i \in 1..Len(trace) : IsSendAll(trace[i])}) <= 1
        /\ \A i \in 1..Len(trace) : IsSendAll(trace[i]) =>
              /\ GuardPassed
              /\ \A j \in (i + 1)..Len(trace) : StepOf(trace[j]) = <<>>
              /\ trace[i].ok => StepsOf(trace) = ExpectedSteps(slot, operation, parkloc)

C17_Witness ==
    /\ call = "book_slot" /\ pc = "done" /\ exc = "none"
    /\ slot.airport = "CYYZ" /\ operation = "arrival" /\ slot.time = "0800"
    /\ Ev("showinfo", "Send All", "", TRUE) \in TraceSet
    /\ Len(StepsOf(trace)) = 12

\* An interaction of the label-relative lookup of fill_text_cell.
IsLabelRelative(e) ==
    e.target \in {"row", "row label", "page label", "container", "label-relative input"}

IsDirect(e) == \E l \in DOMAIN selector_map :
                  \E i \in 1..Len(selector_map[l]) : e.target = selector_map[l][i]

\* The elements written: the targets of the fills that succeeded.
Written == {trace[i].target : i \in {j \in 1..Len(trace) : trace[j].op = "fill" /\ trace[j].ok}}

\* C18: for every label with a direct selector, when a direct target became
\* visible and took the value, the label-relative lookup was not invoked
\* and no other element was written: that fill ends the call.
C18_DirectFillSkipsFallback ==
    (pc = "done" /\ px.label \in DOMAIN selector_map) =>
        \A i \in 1..Len(trace) :
            (IsDirect(trace[i]) /\ trace[i].op = "fill" /\ trace[i].ok) =>
                /\ \A e \in TraceSet : ~IsLabelRelative(e)
                /\ Written = {trace[i].target}
                /\ i = Len(trace) /\ exc = "none"

C18_Witness ==
    /\ pc = "done" /\ px.label = "Dest" /\ px.value = "KTEB"
    /\ trace = <<Ev("wait_visible", "#destinationStation", "", TRUE),
                 Ev("fill", "#destinationStation", "KTEB", TRUE)>>

\* The interactions with one target, as positions of trace.
At(target) == {i \in 1..Len(trace) : trace[i].target = target}

Failed(target) == \E i \in At(target) : ~trace[i].ok

\* C19: for Time, #clearedTimeDep is tried before #clearedTimeArr, the
\* second only when the first failed, the label-relative lookup only when
\* both failed, and a call that returns has written exactly one element.
C19_TimeCandidatesInOrder ==
    (pc = "done" /\ px.label = "Time") =>
        /\ At("#clearedTimeDep") # {}
        /\ \A i \in At("#clearedTimeDep"), j \in At("#clearedTimeArr") : i < j
        /\ At("#clearedTimeArr") # {} <=> Failed("#clearedTimeDep")
        /\ (\E e \in TraceSet : IsLabelRelative(e)) <=>
              (Failed("#clearedTimeDep") /\ Failed("#clearedTimeArr"))
        /\ exc = "none" => Cardinality(Written) = 1
        /\ exc # "none" => Written = {}

C19_Witness ==
    /\ pc = "done" /\ px.label = "Time" /\ exc = "none"
    /\ Failed("#clearedTimeDep")
    /\ Written = {"#clearedTimeArr"}

\* The number of cells of the header before the label's.
CellsBefore(header, label) ==
    Cardinality({i \in 1..Len(header) : \A j \in 1..i : header[j] # label})

RECURSIVE NthFieldSection(_, _)
\* The field section number n, counted from 0, of the cells; "" for none.
NthFieldSection(cells, n) ==
    IF cells = <<>> THEN ""
    ELSE IF Head(cells) = Gap THEN NthFieldSection(Tail(cells), n)
    ELSE IF n = 0 THEN Head(cells)
    ELSE NthFieldSection(Tail(cells), n - 1)

\* trace is that of the structural strategy of select_row_react_select.
InStructural ==
    /\ px.fn = "select_row_react_select" /\ trace # <<>>
    /\ pc = "dd_fallback" \/ (pc = "done" /\ px.first = "none")

OnSection(e) == e.target \in {"target_section", "react-select input", ".ocs__control", ".ocs__menu"}

\* C20: in the structural strategy, with the label's section at index i
\* among the cells of the header, every interaction with a section or its
\* control is with field section i of the row of inputs, whatever the
\* arrangement of the two rows; and the label's section is in the header.
C20_SameOrdinalSection ==
    InStructural =>
        \A e \in TraceSet : OnSection(e) =>
            /\ \E i \in 1..Len(px.row.header) : px.row.header[i] = px.label
            /\ e.ok => e.val # ""
            /\ e.val # "" =>
                  e.val = NthFieldSection(px.row.data, CellsBefore(px.row.header, px.label))

C20_Witness ==
    /\ InStructural /\ pc = "done" /\ px.out = "True"
    /\ px.row = [header |-> <<"Extra", "A/P", "STC">>, data |-> <<"extra", "ap", "stc">>]
    /\ Ev("click", "option", px.value, TRUE) \in TraceSet
    /\ Ev("click", ".ocs__control", "ap", TRUE) \in TraceSet

\* The row the element of interaction i of fill_text_cell lies in.
RowOfElement(i) ==
    LET viaPageLabel == \E j \in 1..i : trace[j].target = "page label"
    IN  IF LookupScope(trace[i].target, viaPageLabel) = "page" /\ px.elsewhere
        THEN "another row" ELSE "first-flight"

\* C21: every fill of a booking writes an element of the first-flight row,
\* whichever lookup found it; no element outside that row is written.
C21_FillsInsideActiveRow ==
    pc = "done" =>
        \A i \in 1..Len(trace) :
            (trace[i].op = "fill" /\ trace[i].ok) => RowOfElement(i) = "first-flight"

\* trace is a whole run of ensure_add_flights_page.
GuardRun == call = "ensure_add_flights_page" /\ pc = "done" /\ trace # <<>>

\* _nav_to_add_flights was entered in the run.
Walked ==
    \E e \in TraceSet :
        \/ e.target = "networkidle" \/ e.target = "Add Flights"
        \/ \E i \in 1..Len(NavLocators) : e.target = NavLocators[i]

\* C23: the navigation guard walks the menu again whenever the Departure
\* header or the Arrival header is not visible when it looks, and skips the
\* walk only when both are visible.
C23_RewalksWhenMarkerAbsent ==
    GuardRun =>
        /\ ~trace[1].ok => Walked
        /\ ~Walked => \A e \in TraceSet : e.target = "p=Arrival" => e.ok

\* The last wait for, or scroll to, the control before its opening loop.
LoopStart ==
    LET before == {i \in 1..Len(trace) : trace[i].op \in {"wait_visible", "scroll"}}
    IN  IF before = {} THEN 0 ELSE CHOOSE i \in before : \A j \in before : j <= i

\* The clicks on the control in the opening loop.
LoopClicks ==
    {i \in (LoopStart + 1)..Len(trace) : trace[i].op = "click" /\ ~IsOptionClick(trace[i])}

MenuSeen(i) == trace[i].op = "menu_visible" /\ trace[i].ok

\* C24: in each opening loop the control is clicked at most twice, no click
\* on the control follows a look that saw the menu, and an option is clicked
\* only after the menu was seen in that loop.
C24_OpenLoopAtMostTwice ==
    trace # <<>> =>
        /\ Cardinality(LoopClicks) <= 2
        /\ \A i \in 1..Len(trace) : MenuSeen(i) => \A j \in LoopClicks : j < i
        /\ \A i \in 1..Len(trace) : IsOptionClick(trace[i]) =>
              \E j \in (LoopStart + 1)..(i - 1) : MenuSeen(j)
        /\ \A i \in 1..Len(trace) : trace[i].target = ".ocs__menu" =>
              i > LoopStart + 1 /\ (i - 1) \in LoopClicks

C24_Witness ==
    /\ pc = "done" /\ px.fn = "select_parkloc" /\ px.out = "returned"
    /\ Cardinality(LoopClicks) = 2
    /\ \E i \in 1..Len(trace) : trace[i].op = "menu_hidden" /\ trace[i].ok
    /\ Ev("click", "option", px.value, TRUE) \in TraceSet

\* C25: select_row_react_select runs the structural strategy first and the
\* proximity strategy only after a step of the structural one failed; it
\* returns True exactly when an option was clicked, False when both
\* strategies failed, and raises nothing.
C25_StructuralThenProximity ==
    px.fn = "select_row_react_select" =>
        /\ exc = "none"
        /\ pc = "dd_fallback" =>
              /\ px.first # "none" /\ px.out = "none"
              /\ ~trace[Len(trace)].ok \/ NeverOpened
              /\ \A e \in TraceSet : ~(IsOptionClick(e) /\ e.ok)
        /\ pc = "done" =>
              /\ px.out \in {"True", "False"}
              /\ px.out = "True" <=> \E e \in TraceSet : IsOptionClick(e) /\ e.ok
              /\ px.first = "none" => \A e \in TraceSet : e.op # "log" /\ e.target # "label"
              /\ px.first # "none" => trace[1] = Ev("log", "ERROR selecting", px.label, TRUE)
              /\ px.out = "False" =>
                    /\ px.first # "none"
                    /\ trace[Len(trace)] = Ev("log", "FALLBACK ERROR selecting", px.label, TRUE)

C25_Witness ==
    /\ px.fn = "select_row_react_select" /\ pc = "done" /\ px.out = "True"
    /\ px.first = "TimeoutError"
    /\ Ev("wait_visible", "label", "A/P", TRUE) \in TraceSet
    /\ Ev("click", "option", px.value, TRUE) \in TraceSet

\* C26: when the challenge was detected with a well-formed instruction and a
\* passphrase long enough, and _login returned, both challenge inputs were
\* filled and the challenge's Login control was clicked: a failure while
\* answering is not passed over as "no challenge detected".
C26_AnsweredWhenLoginReturns ==
    (/\ call = "start" /\ pc = "start_nav" /\ page # None
     /\ instruction # <<>> /\ WellFormed(instruction)
     /\ Len(creds.passphrase) >= Needed(instruction)) =>
        /\ Len(ChallengeEvents) = 3
        /\ \A i \in 1..Len(ChallengeEvents) : ChallengeEvents[i].ok

\* C27: when the "already logged in" notice was detected, the log-out
\* control was clicked and the native credentials were submitted again
\* before the passphrase branch is probed.
C27_ConflictRecoveredBeforePassphrase ==
    (/\ call = "start" /\ pc = "login_settle"
     /\ trace # <<>> /\ trace[1] = Ev("wait", "text=already logged in", "", TRUE)) =>
        /\ Ev("click", "Log out other user", "", TRUE) \in TraceSet
        /\ Ev("fill", "input[name='username']", creds.username, TRUE) \in TraceSet
        /\ Ev("fill", "input[name='password']", creds.password, TRUE) \in TraceSet
        /\ Ev("click", "Next", "", TRUE) \in TraceSet

\* C28: start() on a session that holds a page returns at once: no remote
\* interaction, no login or navigation phase, and the four handles, the
\* launch count and the bookings stay as they were.  A login begins only from
\* a session without a page, and a held page is given up only by close()
\* (called on the session, or by _login for a passphrase too short), so
\* between two closes at most one login is performed.
C28_StartOnActiveIsNoOp ==
    [][/\ (pc = "idle" /\ call' = "start" /\ page # None) =>
            /\ pc' = "done" /\ exc' = "none"
            /\ trace' = <<>> /\ phases' = <<>>
            /\ UNCHANGED <<pw, browser, context, page, launches, bookings>>
       /\ (pc # "login_entry" /\ pc' = "login_entry") => page = None
       /\ (page # None /\ page' = None) =>
            \/ call' = "close"
            \/ \E i \in 1..Len(trace') : trace'[i] = TooShortDialog
      ]_vars

\* A start() that returned at once on a session that had already booked.
C28_Witness ==
    /\ call = "start" /\ pc = "done" /\ exc = "none"
    /\ page # None /\ bookings >= 1
    /\ trace = <<>> /\ phases = <<>>

\* C29: when close() has finished, returning or raising, the four handles
\* are None and is_active is false; close() on a session that holds nothing
\* makes no teardown call and raises nothing; a start() on a session without
\* a page launches anew and, the launch done, begins the login.
C29_CloseResetsAndRestartIsFresh ==
    [][/\ (pc = "idle" /\ call' = "close") =>
            /\ pc' = "done"
            /\ pw' = None /\ browser' = None /\ context' = None /\ page' = None
            /\ ~IsActive'
            /\ (pw = None /\ browser = None /\ context = None /\ page = None) =>
                    (trace' = <<>> /\ exc' = "none")
       /\ (pc = "idle" /\ call' = "start" /\ page = None) =>
            /\ launches' = launches + 1
            /\ \/ pc' = "login_entry" /\ page' = launches' /\ context' = launches'
               \/ pc' = "done" /\ exc' = "Error" /\ page' = None
      ]_vars

\* A close() in which a teardown call raised after a launch.
C29_Witness ==
    /\ call = "close" /\ pc = "done" /\ exc = "Error"
    /\ launches >= 1
    /\ pw = None /\ browser = None /\ context = None /\ page = None

\* C22: when launch_autofill has found the credentials present and called
\* save_creds, it goes on to run_ocs_autofill on the session of the
\* application whether the write succeeded or failed: no exception leaves
\* launch_autofill at that point.
C22_SaveFailureNeverInterrupts ==
    [][(/\ pc = "idle" /\ call' = "launch_autofill" /\ autofill.stage = "none"
        /\ \E ok \in BOOLEAN : trace' = <<CredFileWrite(ok)>>) =>
            /\ autofill'.stage = "start" /\ ~autofill'.owns
            /\ pc' = "idle" /\ exc' = "none"
      ]_vars

\* A run begun after the write of the credentials file failed.
C22_Witness ==
    /\ call = "launch_autofill" /\ pc = "idle"
    /\ trace = <<CredFileWrite(FALSE)>>
    /\ autofill.stage = "start" /\ ~MissingCredentials(autofill.creds)

\* C30: within run_ocs_autofill, close() is called only on a session the
\* function created; the try block is left through the finally block alone;
\* a run on its own session ends closed, with the four handles None; a run
\* on the caller's session ends with the handles as they were, and with a
\* page held when start and book_slot both returned.
C30_ClosesOnlyOwnSession ==
    [][/\ (pc = "idle" /\ call' = "close" /\ autofill.stage # "none") => autofill.owns
       /\ (autofill.stage \in {"start", "book"} /\ autofill'.stage # autofill.stage) =>
            autofill'.stage \in {"book", "finally"}
       /\ (autofill.stage # "none" /\ autofill'.stage = "none") =>
            IF autofill.owns
            THEN /\ autofill.stage = "closed"
                 /\ pw' = None /\ browser' = None /\ context' = None /\ page' = None
            ELSE /\ autofill.stage = "finally"
                 /\ UNCHANGED <<pw, browser, context, page>>
                 /\ autofill.exc = "none" => IsActive'
      ]_vars

\* A second booking made by launch_autofill on the session it reused.
C30_Witness ==
    /\ call = "launch_autofill" /\ pc = "done" /\ exc = "none"
    /\ autofill.stage = "none" /\ trace = <<>>
    /\ IsActive /\ bookings >= 2

\* C33: when every direct selector of fill_text_cell failed and the
\* label-relative lookup took over, a line was appended to the debug log.
C33_FallbackAppendsLogLine ==
    (/\ call = "fill_text_cell" /\ pc = "done"
     /\ \E e \in TraceSet : IsDirect(e) /\ ~e.ok
     /\ \E e \in TraceSet : IsLabelRelative(e)) =>
        \E e \in TraceSet : e.op = "log"

\* C32: once _apply_slot_defaults has run on a slot, its ac_type and its
\* seats are both non-empty, whatever the slot held before.
C32_TypeAndSeatsAlwaysSet ==
    px.n >= 1 => Truthy(slot.ac_type) /\ Truthy(slot.seats)

====
